---- MODULE Spec2Model ----
(***************************************************************************)
(* A model of the live-streaming core of adk-python:                       *)
(*   - LiveRequest / LiveRequestQueue  (agents/live_request_queue.py)      *)
(*   - AudioCacheManager               (flows/llm_flows/audio_cache_manager.py) *)
(*   - ControlEventConfig              (flows/llm_flows/live_flow_config.py) *)
(*   - the live flow that drives them, as the specification describes it   *)
(* Each subsystem has its own specification over the shared variables:     *)
(*   EnvelopeSpec  the LiveRequest constructor (a pure function)           *)
(*   QueueSpec     producers and the single consumer of one queue          *)
(*   QueueFairSpec QueueSpec with the consumer scheduled fairly            *)
(*   CacheSpec     cache_* calls interleaved with flush_caches calls, whose *)
(*                 awaited service calls succeed or raise                  *)
(*   ConfigSpec    ControlEventConfig objects and get_flush_settings calls *)
(*   InboundSpec   the inbound loop of the live flow handling a stream of  *)
(*                 model responses                                         *)
(*   FlowSpec      the live flow: the caller, the outbound loop reading    *)
(*                 the request queue, and the inbound loop                 *)
(*   FlowFairSpec  FlowSpec with both loops scheduled fairly               *)
(*   PersistSpec   CacheSpec's calls on a stream of chunks that are all    *)
(*                 different, so that a chunk can be followed              *)
(*   StatsSpec     PersistSpec with get_cache_stats calls                  *)
(*   SessionSpec   the live flow with cache statistics, responses whose    *)
(*                 handling fails, and a model connection that fails       *)
(*   SessionFairSpec SessionSpec with its tasks scheduled fairly           *)
(*   ThresholdSpec PersistSpec's calls on a manager constructed with any   *)
(*                 AudioCacheConfig, while the clock runs                  *)
(*   PumpSpec      the caller and the outbound loop, with the history of   *)
(*                 the loop's last timed-out wait                          *)
(*   PumpFairSpec  PumpSpec with the outbound loop scheduled fairly        *)
(* and so has each of the other components modelled:                       *)
(*   ToolsetSpec   ComputerUseToolset called by overlapping tasks          *)
(*                 (tools/computer_use/computer_use_toolset.py)            *)
(*   RetrySpec     ReflectAndRetryPlugin's error callbacks                 *)
(*                 (plugins/reflect_retry_plugin.py)                       *)
(*   ReduceSpec    the context reduction strategies, pure functions        *)
(*                 (plugins/context_management_plugin.py)                  *)
(*   LoaderSpec    InMemoryAgentLoader                                     *)
(*                 (cli/utils/in_memory_agent_loader.py)                   *)
(***************************************************************************)
EXTENDS Integers, Sequences, FiniteSets, TLC

VARIABLES
  kwargs,              \* keyword arguments of the last LiveRequest(...) call
  result,              \* its outcome: "none" | "ok" | "ValidationError"
  built,               \* the request it returned (NoRequest when it raised)
  queue,               \* LiveRequestQueue._queue, head first
  getter,              \* the consumer: "idle" | "waiting" (suspended in get())
  calls,               \* number of producer calls made so far
  raised,              \* whether the last producer call raised
  sent,                \* history: every request put into the queue, in order
  delivered,           \* history: every request get() returned, in order
  artifact_service,    \* invocation_context.artifact_service is configured
  input_audio_cache,   \* invocation_context.input_audio_cache
  output_audio_cache,  \* invocation_context.output_audio_cache
  now,                 \* the last value time.time() returned, in clock ticks
  artifacts,           \* what the artifact service has saved, in order
  events,              \* the session's event log
  fl,                  \* the flush_caches call in progress: where it is
                       \* suspended, its arguments, its pending service call
  cache_calls,         \* number of cache_* calls made so far
  flush_calls,         \* number of flush_caches calls made so far
  hist,                \* history of the last flush_caches call: the caches
                       \* when it was called, the save_artifact calls it made
  control_event_config, \* the ControlEventConfig object
  config_kwargs,       \* the keyword arguments it was constructed with
  event_type,          \* the argument of the last get_flush_settings call
  settings,            \* what that call returned, or that it raised
  outbound,            \* the outbound loop: "idle" | "running" | "terminated"
  inbound,             \* the inbound loop: "idle", "waiting" for a response,
                       \* the stage of the response in hand, or "ended"
  connection,          \* the model connection: "open" | "closing" | "closed"
  response,            \* the response the inbound loop has in hand
  seq,                 \* number of responses received so far
  origin,              \* history: for each session event, the number of the
                       \* response that triggered it
  passes,              \* history: the flush passes made for the response in
                       \* hand
  close_called,        \* history: the caller has called close()
  stats,               \* what the last get_cache_stats call returned
  enable_cache_statistics, \* LiveFlowConfig.enable_cache_statistics
  stats_log,           \* the cache statistics the flow has logged, in order
  session_error,       \* the error run_live raised to its caller, or None
  dropped,             \* history: the responses whose handling failed
  cache_config,        \* AudioCacheManager.config
  last_timeout,        \* history: the outbound loop's last timed-out wait,
                       \* with what the queue held and how many requests
                       \* the loop had got when it timed out
  initialized,         \* ComputerUseToolset._initialized
  callers,             \* the tasks calling the toolset: where each one is
                       \* and which method it called
  ensure_calls,        \* number of calls made on the toolset so far
  initialize_calls,    \* history: number of computer.initialize() calls
  initialize_failures, \* history: how many of them raised
  max_retries,         \* ReflectAndRetryPlugin.max_retries
  retry_counts,        \* ReflectAndRetryPlugin._retry_counts
  outcome,             \* what the plugin's last error callback returned
  errors,              \* history: the keys of the errors reported so far
  strategy,            \* the context reduction strategy and its limit
  contents,            \* llm_request.contents
  original,            \* history: the contents before reduce was called
  reduce_outcome,      \* how the last reduce call ended
  agents,              \* the mapping InMemoryAgentLoader was constructed with
  agent_cache,         \* InMemoryAgentLoader._agent_cache
  loader_result        \* what the loader's last call returned or raised

queueVars == <<queue, getter, calls, raised, sent, delivered>>
envelopeVars == <<kwargs, result, built>>
cacheVars ==
  <<artifact_service, input_audio_cache, output_audio_cache, now, artifacts,
    events, fl, cache_calls, flush_calls, hist>>
configVars == <<control_event_config, config_kwargs, event_type, settings>>
flowVars ==
  <<outbound, inbound, connection, response, seq, origin, passes,
    close_called>>
sessionVars ==
  <<stats, enable_cache_statistics, stats_log, session_error, dropped>>
toolsetVars ==
  <<initialized, callers, ensure_calls, initialize_calls, initialize_failures>>
retryVars == <<max_retries, retry_counts, outcome, errors>>
reduceVars == <<strategy, contents, original, reduce_outcome>>
loaderVars == <<agents, agent_cache, loader_result>>
unitVars == <<cache_config, toolsetVars, retryVars, reduceVars, loaderVars>>
componentVars == <<last_timeout, unitVars>>
restVars == <<configVars, flowVars, sessionVars, componentVars>>

\* ------------------------------------------------------------------ bounds
MaxSends == 2
MaxCacheCalls == 2
MaxFlushCalls == 2
MaxTime == 2
MaxResponses == 2

\* ------------------------------------------------------- LiveRequest model
None == "None"
ContentValues == {None, "content1"}
BlobValues == {None, "blob1"}
\* A boolean keyword argument is either not given, or given as False or True.
FlagArgs == {"unset", "False", "True"}
SignalFields == <<"activity_start", "activity_end", "close">>

Kwargs ==
  [content : ContentValues, blob : BlobValues,
   activity_start : FlagArgs, activity_end : FlagArgs, close : FlagArgs]

NoKwargs ==
  [content |-> None, blob |-> None,
   activity_start |-> "unset", activity_end |-> "unset", close |-> "unset"]

\* The field defaults of the class.
NoRequest ==
  [content |-> None, blob |-> None,
   activity_start |-> FALSE, activity_end |-> FALSE, close |-> FALSE]

\* bool(x) of an Optional[Content] / Optional[Blob]: None is falsy, an object
\* (a pydantic model without __bool__ or __len__) is truthy.
Truthy(x) == x # None

\* info.data.get(name, default)
DataGet(data, name, default) ==
  IF name \in DOMAIN data THEN data[name] ELSE default

BoolToInt(b) == IF b THEN 1 ELSE 0

validate_single_signal_NoContentCheck(v, field_name, data) ==
  IF v /\ DOMAIN data # {}
    THEN LET signal_count ==
               BoolToInt(DataGet(data, "activity_start", FALSE))
               + BoolToInt(DataGet(data, "activity_end", FALSE))
               + BoolToInt(DataGet(data, "close", FALSE))
               + BoolToInt(v)
         IN ~(signal_count > 1)
    ELSE TRUE

\* TRUE when the validator returns v, FALSE when it raises ValueError.
validate_single_signal(v, field_name, data) ==
  IF v /\ DOMAIN data # {}
    THEN LET signal_count ==
               BoolToInt(DataGet(data, "activity_start", FALSE))
               + BoolToInt(DataGet(data, "activity_end", FALSE))
               + BoolToInt(DataGet(data, "close", FALSE))
               + BoolToInt(v)
             has_content ==
               Truthy(DataGet(data, "content", None))
               \/ Truthy(DataGet(data, "blob", None))
             is_activity_signal ==
               field_name \in {"activity_start", "activity_end"}
         IN ~(is_activity_signal /\ has_content) /\ ~(signal_count > 1)
    ELSE TRUE

\* One boolean field of the constructor: a field that is not given takes its
\* default without validation; a given one runs the validator with the fields
\* validated so far (info.data); a field whose validator raised is left out
\* of info.data and the remaining fields are still validated.
FieldStep(k, name, st) ==
  IF k[name] = "unset"
    THEN [data |-> st.data @@ (name :> FALSE), ok |-> st.ok]
    ELSE LET v == (k[name] = "True")
         IN IF validate_single_signal(v, name, st.data)
              THEN [data |-> st.data @@ (name :> v), ok |-> st.ok]
              ELSE [data |-> st.data, ok |-> FALSE]

\* The constructor's validation: fields are validated in declaration order.
ValidateModel(k) ==
  LET s0 == [data |-> [content |-> k.content, blob |-> k.blob], ok |-> TRUE]
      s1 == FieldStep(k, SignalFields[1], s0)
      s2 == FieldStep(k, SignalFields[2], s1)
      s3 == FieldStep(k, SignalFields[3], s2)
  IN IF s3.ok
       THEN [ok |-> TRUE,
             value |-> [content |-> s3.data["content"],
                        blob |-> s3.data["blob"],
                        activity_start |-> s3.data["activity_start"],
                        activity_end |-> s3.data["activity_end"],
                        close |-> s3.data["close"]]]
       ELSE [ok |-> FALSE, value |-> NoRequest]

\* The constructor, tabulated over the keyword arguments of the model.
LiveRequestTable == [k \in Kwargs |-> ValidateModel(k)]

\* LiveRequest(**k): [ok |-> it returned, value |-> the request it returned].
LiveRequest(k) == LiveRequestTable[k]

\* The requests the constructor can return.
Constructed == {LiveRequest(k).value : k \in {x \in Kwargs : LiveRequest(x).ok}}

\* req.<field> = v on an existing request: the model config sets neither
\* validate_assignment nor frozen, so the assignment runs no validator.
SetAttr(req, name, v) == [req EXCEPT ![name] = v]

\* What a caller can hand to send(): a constructed request, possibly after
\* one attribute assignment.
CallerRequests ==
  Constructed
  \cup {SetAttr(r, SignalFields[i], TRUE) : r \in Constructed, i \in 1..3}

\* The envelope invariant of the data model.
EnvelopeValid(r) ==
  /\ BoolToInt(r.activity_start) + BoolToInt(r.activity_end)
       + BoolToInt(r.close) <= 1
  /\ ~((r.activity_start \/ r.activity_end)
        /\ (r.content # None \/ r.blob # None))

\* ------------------------------------------------------------ EnvelopeSpec
NewLiveRequest(k) ==
  /\ kwargs' = k
  /\ result' = IF LiveRequest(k).ok THEN "ok" ELSE "ValidationError"
  /\ built' = LiveRequest(k).value
  /\ UNCHANGED <<queueVars, cacheVars>>

\* ------------------------------------------------------- LiveRequestQueue
\* asyncio.Queue() is unbounded (maxsize 0): put_nowait never raises QueueFull.
put_nowait_Bounded(req) ==
  IF Len(queue) >= 1
    THEN raised' = TRUE /\ UNCHANGED <<queue, sent>>
    ELSE /\ queue' = Append(queue, req)
         /\ sent' = Append(sent, req)
         /\ raised' = FALSE

put_nowait_Front(req) ==
  /\ queue' = <<req>> \o queue
  /\ sent' = Append(sent, req)
  /\ raised' = FALSE

\* A queue that enforces termination: once a close request was enqueued,
\* later requests are refused.
put_nowait_ClosedRejects(req) ==
  IF \E i \in 1..Len(sent) : sent[i].close
    THEN raised' = TRUE /\ UNCHANGED <<queue, sent>>
    ELSE /\ queue' = Append(queue, req)
         /\ sent' = Append(sent, req)
         /\ raised' = FALSE

put_nowait(req) ==
  /\ queue' = Append(queue, req)
  /\ sent' = Append(sent, req)
  /\ raised' = FALSE

\* self._queue.put_nowait(LiveRequest(...)) for a constructor outcome res:
\* when the constructor raised, nothing is enqueued.
PutNew(res) ==
  /\ calls' = calls + 1
  /\ IF res.ok
       THEN put_nowait(res.value)
       ELSE raised' = TRUE /\ UNCHANGED <<queue, sent>>
  /\ UNCHANGED <<getter, delivered>>
  /\ UNCHANGED <<envelopeVars, cacheVars>>

\* The constructor calls the producers make.
CloseRequest == LiveRequest([NoKwargs EXCEPT !.close = "True"])
ContentRequest ==
  [c \in ContentValues |-> LiveRequest([NoKwargs EXCEPT !.content = c])]
RealtimeRequest ==
  [b \in BlobValues |-> LiveRequest([NoKwargs EXCEPT !.blob = b])]
ActivityStartRequest == LiveRequest([NoKwargs EXCEPT !.activity_start = "True"])
ActivityEndRequest == LiveRequest([NoKwargs EXCEPT !.activity_end = "True"])

close_AsActivityEnd == PutNew(ActivityEndRequest)

close == PutNew(CloseRequest)

send_content(content) == PutNew(ContentRequest[content])

send_realtime(blob) == PutNew(RealtimeRequest[blob])

send_activity_start == PutNew(ActivityStartRequest)

send_activity_end == PutNew(ActivityEndRequest)

send(req) ==
  /\ calls' = calls + 1
  /\ put_nowait(req)
  /\ UNCHANGED <<getter, delivered>>
  /\ UNCHANGED <<envelopeVars, cacheVars>>

\* get_nowait of the underlying queue: the leftmost item.
get_nowait ==
  /\ queue # <<>>
  /\ delivered' = Append(delivered, Head(queue))
  /\ queue' = Tail(queue)

\* get() is called: with an item available it returns at once, otherwise the
\* calling task suspends.
get_call_NoWait ==
  /\ getter = "idle"
  /\ IF queue # <<>>
       THEN get_nowait /\ getter' = "idle"
       ELSE /\ delivered' = Append(delivered, NoRequest)
            /\ UNCHANGED <<queue, getter>>
  /\ UNCHANGED <<calls, raised, sent>>
  /\ UNCHANGED <<envelopeVars, cacheVars>>

get_call ==
  /\ getter = "idle"
  /\ IF queue # <<>>
       THEN get_nowait /\ getter' = "idle"
       ELSE getter' = "waiting" /\ UNCHANGED <<queue, delivered>>
  /\ UNCHANGED <<calls, raised, sent>>
  /\ UNCHANGED <<envelopeVars, cacheVars>>

\* The suspended get() is resumed once the queue holds an item.
get_resume ==
  /\ getter = "waiting"
  /\ get_nowait
  /\ getter' = "idle"
  /\ UNCHANGED <<calls, raised, sent>>
  /\ UNCHANGED <<envelopeVars, cacheVars>>

\* ------------------------------------------------------ AudioCacheManager
\* A cache field of the invocation context is None or a list.
AbsentCache == [absent |-> TRUE, entries |-> <<>>]
EmptyList == [absent |-> FALSE, entries |-> <<>>]

\* `not cache`: None and the empty list are both falsy.
NotCache(cache) == cache.absent \/ cache.entries = <<>>

\* The audio blobs of the model: bytes, and a mime type as its '/'-separated
\* segments.
AudioBlobs ==
  {[data |-> <<1>>, mime_type |-> <<"audio", "pcm">>],
   [data |-> <<2>>, mime_type |-> <<"audio", "wav">>]}

\* The n-th chunk of a stream of chunks that are all different: n bytes, each
\* of them n.
ChunkBlob(n) ==
  [data |-> [i \in 1..n |-> n], mime_type |-> <<"audio", "pcm">>]

\* Clock ticks per millisecond: timestamps are finer than the milliseconds of
\* a filename.
TicksPerMs == 2

\* time.time() when the session starts: a positive time, half a millisecond
\* before a millisecond boundary.
StartTime == TicksPerMs - 1

AudioCacheEntry(role, blob, timestamp) ==
  [role |-> role, data |-> blob, timestamp |-> timestamp]

\* The append of cache_input_audio / cache_output_audio: a falsy cache is
\* replaced by a new list first.
AppendEntry_Replace(cache, entry) ==
  [absent |-> FALSE, entries |-> <<entry>>]

AppendEntry_Front(cache, entry) ==
  [absent |-> FALSE,
   entries |-> <<entry>> \o (IF NotCache(cache) THEN <<>> ELSE cache.entries)]

\* An append that enforces auto_flush_threshold: a cache that already holds
\* that many chunks is emptied before the new chunk is added.
AppendEntry_AutoFlush(cache, entry) ==
  [absent |-> FALSE,
   entries |->
     IF NotCache(cache)
          \/ Len(cache.entries) >= cache_config.auto_flush_threshold
       THEN <<entry>>
       ELSE Append(cache.entries, entry)]

AppendEntry(cache, entry) ==
  [absent |-> FALSE,
   entries |-> Append(IF NotCache(cache) THEN <<>> ELSE cache.entries, entry)]

\* The history notes a cache_* call made after the last flush_caches call.
Touch == hist' = [hist EXCEPT !.touched = TRUE]

\* time.time() at the call: the clock has not gone back.
cache_input_audio(audio_blob, t) ==
  /\ t >= now
  /\ now' = t
  /\ input_audio_cache' =
       AppendEntry(input_audio_cache, AudioCacheEntry("user", audio_blob, t))
  /\ cache_calls' = cache_calls + 1
  /\ Touch
  /\ UNCHANGED <<artifact_service, output_audio_cache, artifacts, events, fl,
                 flush_calls>>
  /\ UNCHANGED <<envelopeVars, queueVars>>

cache_output_audio(audio_blob, t) ==
  /\ t >= now
  /\ now' = t
  /\ output_audio_cache' =
       AppendEntry(output_audio_cache, AudioCacheEntry("model", audio_blob, t))
  /\ cache_calls' = cache_calls + 1
  /\ Touch
  /\ UNCHANGED <<artifact_service, input_audio_cache, artifacts, events, fl,
                 flush_calls>>
  /\ UNCHANGED <<envelopeVars, queueVars>>

\* combined_audio_data: the chunks' bytes in cache order.
RECURSIVE CombinedAudio_Reversed(_)
CombinedAudio_Reversed(entries) ==
  IF entries = <<>> THEN <<>>
  ELSE CombinedAudio_Reversed(Tail(entries)) \o Head(entries).data.data

RECURSIVE CombinedAudio(_)
CombinedAudio(entries) ==
  IF entries = <<>> THEN <<>>
  ELSE Head(entries).data.data \o CombinedAudio(Tail(entries))

\* f"{cache_type}_{int(timestamp * 1000)}.{mime_type.split('/')[-1]}"
Filename_NoTimestamp(cache_type, entries) ==
  [cache_type |-> cache_type,
   timestamp_ms |-> 0,
   subtype |-> entries[1].data.mime_type[Len(entries[1].data.mime_type)]]

Filename_LastChunk(cache_type, entries) ==
  [cache_type |-> cache_type,
   timestamp_ms |-> entries[Len(entries)].timestamp \div TicksPerMs,
   subtype |-> entries[Len(entries)].data.mime_type[
                 Len(entries[Len(entries)].data.mime_type)]]

Filename(cache_type, entries) ==
  [cache_type |-> cache_type,
   timestamp_ms |-> entries[1].timestamp \div TicksPerMs,
   subtype |-> entries[1].data.mime_type[Len(entries[1].data.mime_type)]]

NoPending ==
  [side |-> "none", filename |-> <<>>, data |-> <<>>, mime_type |-> <<>>,
   revision |-> 0]

\* What _flush_cache_to_services has computed when it calls save_artifact.
Prepare(side, cache_type, entries) ==
  [side |-> side,
   filename |-> Filename(cache_type, entries),
   data |-> CombinedAudio(entries),
   mime_type |-> entries[1].data.mime_type,
   revision |-> 0]

\* The first statement of _flush_cache_to_services: skip, returning False.
SkipFlush(cache) == ~artifact_service \/ NotCache(cache)

\* flush_caches after a side returned: the cache is cleared on success only.
Cleared_Always(cache, success) == EmptyList

Cleared_Never(cache, success) == cache

Cleared(cache, success) == IF success THEN EmptyList ELSE cache

FlushState(pc, flush_user_audio, flush_model_audio, pending) ==
  [pc |-> pc, flush_user_audio |-> flush_user_audio,
   flush_model_audio |-> flush_model_audio, pending |-> pending]

\* The second `if` of flush_caches, up to the first await of the model side
\* or to the return of flush_caches.
ModelSide_Unconditional(flush_user_audio, flush_model_audio) ==
  IF ~NotCache(output_audio_cache)
    THEN IF SkipFlush(output_audio_cache)
           THEN /\ output_audio_cache' = Cleared(output_audio_cache, FALSE)
                /\ fl' = FlushState("idle", flush_user_audio,
                                    flush_model_audio, NoPending)
           ELSE /\ output_audio_cache' = output_audio_cache
                /\ fl' = FlushState("model_save", flush_user_audio,
                                    flush_model_audio,
                                    Prepare("model", "output_audio",
                                            output_audio_cache.entries))
    ELSE /\ output_audio_cache' = output_audio_cache
         /\ fl' = FlushState("idle", flush_user_audio, flush_model_audio,
                             NoPending)

ModelSide_Normalises(flush_user_audio, flush_model_audio) ==
  IF flush_model_audio /\ ~NotCache(output_audio_cache)
    THEN IF SkipFlush(output_audio_cache)
           THEN /\ output_audio_cache' = Cleared(output_audio_cache, FALSE)
                /\ fl' = FlushState("idle", flush_user_audio,
                                    flush_model_audio, NoPending)
           ELSE /\ output_audio_cache' = output_audio_cache
                /\ fl' = FlushState("model_save", flush_user_audio,
                                    flush_model_audio,
                                    Prepare("model", "output_audio",
                                            output_audio_cache.entries))
    ELSE /\ output_audio_cache' =
              (IF flush_model_audio THEN EmptyList ELSE output_audio_cache)
         /\ fl' = FlushState("idle", flush_user_audio, flush_model_audio,
                             NoPending)

ModelSide(flush_user_audio, flush_model_audio) ==
  IF flush_model_audio /\ ~NotCache(output_audio_cache)
    THEN IF SkipFlush(output_audio_cache)
           THEN /\ output_audio_cache' = Cleared(output_audio_cache, FALSE)
                /\ fl' = FlushState("idle", flush_user_audio,
                                    flush_model_audio, NoPending)
           ELSE /\ output_audio_cache' = output_audio_cache
                /\ fl' = FlushState("model_save", flush_user_audio,
                                    flush_model_audio,
                                    Prepare("model", "output_audio",
                                            output_audio_cache.entries))
    ELSE /\ output_audio_cache' = output_audio_cache
         /\ fl' = FlushState("idle", flush_user_audio, flush_model_audio,
                             NoPending)

\* The first `if` of flush_caches, up to the first await.
UserSide(flush_user_audio, flush_model_audio) ==
  IF flush_user_audio /\ ~NotCache(input_audio_cache)
    THEN IF SkipFlush(input_audio_cache)
           THEN /\ input_audio_cache' = Cleared(input_audio_cache, FALSE)
                /\ ModelSide(flush_user_audio, flush_model_audio)
           ELSE /\ UNCHANGED <<input_audio_cache, output_audio_cache>>
                /\ fl' = FlushState("user_save", flush_user_audio,
                                    flush_model_audio,
                                    Prepare("user", "input_audio",
                                            input_audio_cache.entries))
    ELSE /\ input_audio_cache' = input_audio_cache
         /\ ModelSide(flush_user_audio, flush_model_audio)

NewHistory ==
  [called |-> TRUE,
   input |-> input_audio_cache,
   output |-> output_audio_cache,
   artifacts |-> Len(artifacts),
   events |-> Len(events),
   saves |-> <<>>,
   appends |-> 0,
   failed |-> {},
   touched |-> FALSE]

\* flush_caches is called and runs to its first await, or returns.
flush_caches(flush_user_audio, flush_model_audio) ==
  /\ fl.pc = "idle"
  /\ flush_calls' = flush_calls + 1
  /\ hist' = NewHistory
  /\ UserSide(flush_user_audio, flush_model_audio)
  /\ UNCHANGED <<artifact_service, now, artifacts, events, cache_calls>>
  /\ UNCHANGED <<envelopeVars, queueVars>>

SideDone_StopsOnFailure(side, success) ==
  IF side = "user" /\ success
    THEN /\ input_audio_cache' = Cleared(input_audio_cache, success)
         /\ ModelSide(fl.flush_user_audio, fl.flush_model_audio)
    ELSE /\ output_audio_cache' =
              (IF side = "model" THEN Cleared(output_audio_cache, success)
               ELSE output_audio_cache)
         /\ input_audio_cache' = input_audio_cache
         /\ fl' = FlushState("idle", fl.flush_user_audio,
                             fl.flush_model_audio, NoPending)

\* _flush_cache_to_services returned `success` to flush_caches, which goes on
\* to the next side or returns.
SideDone(side, success) ==
  IF side = "user"
    THEN /\ input_audio_cache' = Cleared(input_audio_cache, success)
         /\ ModelSide(fl.flush_user_audio, fl.flush_model_audio)
    ELSE /\ output_audio_cache' = Cleared(output_audio_cache, success)
         /\ input_audio_cache' = input_audio_cache
         /\ fl' = FlushState("idle", fl.flush_user_audio,
                             fl.flush_model_audio, NoPending)

\* except Exception: log and return False.
OnException_Escapes(side) ==
  /\ fl' = [fl EXCEPT !.pc = "raised"]
  /\ UNCHANGED <<input_audio_cache, output_audio_cache>>

OnException(side) == SideDone(side, FALSE)

\* The artifact service's revision of a new artifact: the number of revisions
\* the filename already has.
NextRevision(filename) ==
  Cardinality({i \in 1..Len(artifacts) : artifacts[i].filename = filename})

\* The awaited save_artifact returns a revision id, or raises.
save_artifact_returns(ok) ==
  /\ fl.pc \in {"user_save", "model_save"}
  /\ hist' = [hist EXCEPT
                !.saves = Append(@, [side |-> fl.pending.side,
                                     data |-> fl.pending.data, ok |-> ok]),
                !.failed = IF ok THEN @ ELSE @ \cup {fl.pending.side}]
  /\ IF ok
       THEN /\ artifacts' =
                 Append(artifacts,
                        [fl.pending EXCEPT
                           !.revision = NextRevision(fl.pending.filename)])
            /\ fl' = [fl EXCEPT
                        !.pc = IF fl.pc = "user_save" THEN "user_append"
                               ELSE "model_append",
                        !.pending.revision =
                          NextRevision(fl.pending.filename)]
            /\ UNCHANGED <<input_audio_cache, output_audio_cache>>
       ELSE /\ artifacts' = artifacts
            /\ OnException(fl.pending.side)
  /\ UNCHANGED <<artifact_service, now, events, cache_calls, flush_calls>>
  /\ UNCHANGED <<envelopeVars, queueVars>>

\* The application, user and session of the invocation context.
AppName == "app"
UserId == "user_id"
SessionId == "session_id"

\* f"artifact://{app_name}/{user_id}/{session.id}/{filename}#{revision_id}",
\* as its parts.
ArtifactRef_FirstRevision(filename, revision_id) ==
  [scheme |-> "artifact", app_name |-> AppName, user_id |-> UserId,
   session_id |-> SessionId, filename |-> filename, revision |-> 0]

ArtifactRef(filename, revision_id) ==
  [scheme |-> "artifact", app_name |-> AppName, user_id |-> UserId,
   session_id |-> SessionId, filename |-> filename,
   revision |-> revision_id]

\* The event of a flushed cache: its first entry's role and timestamp, and
\* one part, a reference to the saved artifact.
AudioEvent_MsTimestamp(first, pending) ==
  [author |-> first.role,
   role |-> first.role,
   parts |-> <<[file_uri |-> ArtifactRef(pending.filename, pending.revision),
                mime_type |-> pending.mime_type]>>,
   timestamp |-> first.timestamp \div TicksPerMs]

AudioEvent(first, pending) ==
  [author |-> first.role,
   role |-> first.role,
   parts |-> <<[file_uri |-> ArtifactRef(pending.filename, pending.revision),
                mime_type |-> pending.mime_type]>>,
   timestamp |-> first.timestamp]

FlushedCache == 
  IF fl.pending.side = "user" THEN input_audio_cache ELSE output_audio_cache

\* The awaited append_event returns, or raises.
append_event_returns(ok) ==
  /\ fl.pc \in {"user_append", "model_append"}
  /\ hist' = [hist EXCEPT
                !.appends = @ + 1,
                !.failed = IF ok THEN @ ELSE @ \cup {fl.pending.side}]
  /\ IF ok
       THEN /\ events' =
                 Append(events,
                        AudioEvent(FlushedCache.entries[1], fl.pending))
            /\ SideDone(fl.pending.side, TRUE)
       ELSE /\ events' = events
            /\ OnException(fl.pending.side)
  /\ UNCHANGED <<artifact_service, now, artifacts, cache_calls, flush_calls>>
  /\ UNCHANGED <<envelopeVars, queueVars>>

\* `cache or []`: the entries of a cache, none for None.
OrEmpty(cache) == IF NotCache(cache) THEN <<>> ELSE cache.entries

\* sum(len(entry.data.data) for entry in entries)
RECURSIVE SumBytes(_)
SumBytes(entries) ==
  IF entries = <<>> THEN 0
  ELSE Len(Head(entries).data.data) + SumBytes(Tail(entries))

\* The dictionary get_cache_stats returns.
get_cache_stats_BytesAsChunks(input, output) ==
  [input_chunks |-> Len(OrEmpty(input)),
   output_chunks |-> Len(OrEmpty(output)),
   input_bytes |-> Len(OrEmpty(input)),
   output_bytes |-> Len(OrEmpty(output)),
   total_chunks |-> Len(OrEmpty(input)) + Len(OrEmpty(output)),
   total_bytes |-> Len(OrEmpty(input)) + Len(OrEmpty(output))]

get_cache_stats(input, output) ==
  LET input_count == Len(OrEmpty(input))
      output_count == Len(OrEmpty(output))
      input_bytes == SumBytes(OrEmpty(input))
      output_bytes == SumBytes(OrEmpty(output))
  IN [input_chunks |-> input_count,
      output_chunks |-> output_count,
      input_bytes |-> input_bytes,
      output_bytes |-> output_bytes,
      total_chunks |-> input_count + output_count,
      total_bytes |-> input_bytes + output_bytes]

\* No get_cache_stats call has returned yet.
NoStats == [called |-> FALSE, value |-> get_cache_stats(AbsentCache, AbsentCache)]

\* A call of get_cache_stats on the invocation context.
get_cache_stats_call ==
  /\ stats' = [called |-> TRUE,
               value |-> get_cache_stats(input_audio_cache,
                                         output_audio_cache)]
  /\ UNCHANGED <<envelopeVars, queueVars, cacheVars>>

\* --------------------------------------------------------- AudioCacheConfig
\* One second of the clock, in ticks.
TicksPerSecond == 1000 * TicksPerMs

\* The defaults of AudioCacheConfig.__init__: 10 MB, five minutes, 100 chunks.
DefaultMaxCacheSizeBytes == 10 * 1024 * 1024
DefaultMaxCacheDurationSeconds == 300
DefaultAutoFlushThreshold == 100

\* AudioCacheConfig.__init__ stores its three arguments. The duration is kept
\* in clock ticks, the unit of the timestamps it is compared with.
AudioCacheConfig(max_cache_size_bytes, max_cache_duration_seconds, auto_flush_threshold) ==
  [max_cache_size_bytes |-> max_cache_size_bytes,
   max_cache_duration |-> max_cache_duration_seconds,
   auto_flush_threshold |-> auto_flush_threshold]

DefaultAudioCacheConfig ==
  AudioCacheConfig(DefaultMaxCacheSizeBytes,
                   DefaultMaxCacheDurationSeconds * TicksPerSecond,
                   DefaultAutoFlushThreshold)

\* The configurations a manager is constructed with: thresholds small enough
\* for a session's audio to pass them (one byte, no time at all, one chunk),
\* alone or together.
AudioCacheConfigs ==
  {AudioCacheConfig(b, d, n) :
     b \in {1, DefaultMaxCacheSizeBytes},
     d \in {0, DefaultMaxCacheDurationSeconds * TicksPerSecond},
     n \in {1, DefaultAutoFlushThreshold}}

\* The optional argument of the constructor: <<>> when it is None or not
\* given, <<c>> for the configuration c.
ConfigArgs == {<<>>} \cup {<<c>> : c \in AudioCacheConfigs}

\* AudioCacheManager.__init__: `config or AudioCacheConfig()`, made before
\* the manager is used.
AudioCacheManager(config) ==
  /\ cache_calls = 0
  /\ flush_calls = 0
  /\ cache_config' =
       IF config = <<>> THEN DefaultAudioCacheConfig ELSE config[1]
  /\ UNCHANGED <<envelopeVars, queueVars, cacheVars>>


\* ----------------------------------------------------- ControlEventConfig
Pairs == BOOLEAN \X BOOLEAN

ConfigFields ==
  {"flush_on_interrupted", "flush_on_turn_complete",
   "flush_on_generation_complete"}

\* The keyword arguments of a ControlEventConfig(...) call: any of the three
\* parameters, each a (flush_user_audio, flush_model_audio) pair.
ConfigKwargs == UNION {[S -> Pairs] : S \in SUBSET ConfigFields}

KwargOr(kw, name, default) == IF name \in DOMAIN kw THEN kw[name] ELSE default

\* ControlEventConfig.__init__ and its parameter defaults.
ControlEventConfig_SwappedDefaults(kw) ==
  [flush_on_interrupted |->
     KwargOr(kw, "flush_on_interrupted", <<TRUE, TRUE>>),
   flush_on_turn_complete |->
     KwargOr(kw, "flush_on_turn_complete", <<FALSE, TRUE>>),
   flush_on_generation_complete |->
     KwargOr(kw, "flush_on_generation_complete", <<FALSE, TRUE>>)]

ControlEventConfig(kw) ==
  [flush_on_interrupted |->
     KwargOr(kw, "flush_on_interrupted", <<FALSE, TRUE>>),
   flush_on_turn_complete |->
     KwargOr(kw, "flush_on_turn_complete", <<TRUE, TRUE>>),
   flush_on_generation_complete |->
     KwargOr(kw, "flush_on_generation_complete", <<FALSE, TRUE>>)]

\* The keys get_flush_settings is called with: the three event kinds, an
\* unknown kind, the empty string and None.
EventKinds == {"interrupted", "turn_complete", "generation_complete"}
EventTypes == EventKinds \cup {"unknown_event", "", None}
NotCalled == "not called"

Returns(value) == [raised |-> FALSE, value |-> value]
Raises(value) == [raised |-> TRUE, value |-> value]

\* d.get(key, default), against d[key], which raises KeyError.
DictGet_Subscript(d, key, default) ==
  IF key \in DOMAIN d THEN Returns(d[key]) ELSE Raises(default)

DictGet(d, key, default) ==
  IF key \in DOMAIN d THEN Returns(d[key]) ELSE Returns(default)

\* config_map of get_flush_settings.
ConfigMap(self) ==
  [interrupted |-> self.flush_on_interrupted,
   turn_complete |-> self.flush_on_turn_complete,
   generation_complete |-> self.flush_on_generation_complete]

get_flush_settings_FlushAll(self, key) == Returns(<<TRUE, TRUE>>)

get_flush_settings(self, key) ==
  DictGet(ConfigMap(self), key, <<FALSE, FALSE>>)

\* A ControlEventConfig is constructed.
NewControlEventConfig(kw) ==
  /\ control_event_config' = ControlEventConfig(kw)
  /\ config_kwargs' = kw
  /\ event_type' = NotCalled
  /\ settings' = Returns(<<FALSE, FALSE>>)
  /\ UNCHANGED <<envelopeVars, queueVars, cacheVars>>

\* get_flush_settings is called on it.
get_flush_settings_call(key) ==
  /\ event_type' = key
  /\ settings' = get_flush_settings(control_event_config, key)
  /\ UNCHANGED <<control_event_config, config_kwargs>>
  /\ UNCHANGED <<envelopeVars, queueVars, cacheVars>>

\* ------------------------------------------------------------ the live flow
\* A response of the model: an input and an output transcription, inline
\* audio (the role of its content), and the three control flags, each
\* absent or falsy unless set.
AllResponses ==
  [input_transcription : {None, "input text"},
   output_transcription : {None, "output text"},
   audio : {None, "user", "model"},
   interrupted : BOOLEAN, turn_complete : BOOLEAN,
   generation_complete : BOOLEAN]

\* The responses of the model's streams: any audio with any flags, and a
\* transcription with any audio and with turn_complete or no flag.
Responses ==
  {r \in AllResponses :
     \/ r.input_transcription = None /\ r.output_transcription = None
     \/ ~r.interrupted /\ ~r.generation_complete}

\* The responses of the streams a caller closes: nothing at all, or both
\* transcriptions and model audio at the end of a turn.
LiveResponses ==
  {r \in Responses :
     \/ r = [input_transcription |-> None, output_transcription |-> None,
             audio |-> None, interrupted |-> FALSE, turn_complete |-> FALSE,
             generation_complete |-> FALSE]
     \/ r = [input_transcription |-> "input text",
             output_transcription |-> "output text", audio |-> "model",
             interrupted |-> FALSE, turn_complete |-> TRUE,
             generation_complete |-> FALSE]}

NoResponse ==
  [input_transcription |-> None, output_transcription |-> None,
   audio |-> None, interrupted |-> FALSE, turn_complete |-> FALSE,
   generation_complete |-> FALSE]

\* The audio blob of an inbound response.
InlineAudio == [data |-> <<1>>, mime_type |-> <<"audio", "pcm">>]

\* The configurations a flow is constructed with: the default policy, or one
\* with a custom pair for 'interrupted'.
FlowConfigs == {<<>>, [f \in {"flush_on_interrupted"} |-> <<TRUE, TRUE>>]}

\* The control flag of a response that is acted on: interrupted is checked
\* first, then turn_complete, then generation_complete.
ControlKind_TurnCompleteFirst(r) ==
  IF r.turn_complete THEN "turn_complete"
  ELSE IF r.interrupted THEN "interrupted"
  ELSE IF r.generation_complete THEN "generation_complete"
  ELSE None

ControlKind(r) ==
  IF r.interrupted THEN "interrupted"
  ELSE IF r.turn_complete THEN "turn_complete"
  ELSE IF r.generation_complete THEN "generation_complete"
  ELSE None

\* The stages of handling one response, in order, and whether a response
\* has work for a stage.
Stages == <<"input_transcription", "output_transcription", "audio", "control">>

HasWork(r, stage) ==
  IF stage = "control" THEN ControlKind(r) # None ELSE r[stage] # None

\* The first stage after stage number i the response has work for; without
\* one the handling of the response is done.
StageAfter(r, i) ==
  IF \E j \in (i + 1)..Len(Stages) : HasWork(r, Stages[j])
    THEN Stages[CHOOSE j \in (i + 1)..Len(Stages) :
                  /\ HasWork(r, Stages[j])
                  /\ \A k \in (i + 1)..(j - 1) : ~HasWork(r, Stages[k])]
    ELSE "done"

\* flush_caches is awaited: the loop stays with the response until the flush
\* has returned.
AfterFlushStep_NotAwaited == "done"

\* After the flush attempt the statistics are logged if
\* enable_cache_statistics is set.
StatisticsStep_Always == "stats"

StatisticsStep == IF enable_cache_statistics THEN "stats" ELSE "done"

AfterFlushStep == IF fl'.pc = "idle" THEN StatisticsStep ELSE "flushing"

\* The final flush of a teardown is awaited as well; the loop ends when it
\* has returned, whatever it returned.
AfterFinalFlush_FailureStops ==
  IF fl'.pc = "idle" /\ hist'.failed = {} THEN "ended" ELSE "final_flush"

AfterFinalFlush == IF fl'.pc = "idle" THEN "ended" ELSE "final_flush"

\* The inbound loop after an awaited service call of a flush returned.
AfterServiceCall ==
  IF inbound = "flushing" THEN AfterFlushStep
  ELSE IF inbound = "final_flush" THEN AfterFinalFlush
  ELSE inbound

\* The flow is constructed with a control event configuration.
configure(kw) ==
  /\ outbound = "idle"
  /\ DOMAIN config_kwargs = {}
  /\ DOMAIN kw # {}
  /\ NewControlEventConfig(kw)
  /\ UNCHANGED <<flowVars, sessionVars, componentVars>>

\* The flow starts both loops.
run_live ==
  /\ outbound = "idle"
  /\ outbound' = "running"
  /\ inbound' = "waiting"
  /\ UNCHANGED <<connection, response, seq, origin, passes, close_called>>
  /\ UNCHANGED <<envelopeVars, queueVars, cacheVars, configVars, sessionVars, componentVars>>

\* The caller sends content, or closes the queue.
caller_send_content(content) ==
  /\ send_content(content)
  /\ UNCHANGED <<configVars, flowVars, sessionVars, componentVars>>

caller_close ==
  /\ close
  /\ close_called' = TRUE
  /\ UNCHANGED <<outbound, inbound, connection, response, seq, origin,
                 passes>>
  /\ UNCHANGED <<configVars, sessionVars, componentVars>>

\* An outbound loop that treats a close request like any other request.
Dispatch_IgnoresClose(req) == UNCHANGED <<outbound, connection>>

\* The outbound loop acts on a request it got from the queue: a close request
\* ends the loop and asks the model connection to close, any other request
\* goes to the model.
Dispatch(req) ==
  IF req.close
    THEN outbound' = "terminated" /\ connection' = "closing"
    ELSE UNCHANGED <<outbound, connection>>

\* The outbound loop calls get() with a timeout: it gets a request at once,
\* or suspends.
outbound_get ==
  /\ outbound = "running"
  /\ get_call
  /\ IF queue # <<>>
       THEN Dispatch(Head(queue))
       ELSE UNCHANGED <<outbound, connection>>
  /\ UNCHANGED <<inbound, response, seq, origin, passes, close_called>>
  /\ UNCHANGED <<configVars, sessionVars, componentVars>>

\* The suspended get() returns a request.
outbound_resume ==
  /\ outbound = "running"
  /\ get_resume
  /\ Dispatch(Head(queue))
  /\ UNCHANGED <<inbound, response, seq, origin, passes, close_called>>
  /\ UNCHANGED <<configVars, sessionVars, componentVars>>

\* The wait times out: the get() is cancelled and the loop goes round.
NoTimeout == [happened |-> FALSE, pending |-> <<>>, got |-> 0]

\* A timeout that cancels the wait together with what arrived during it.
outbound_timeout_LosesPending ==
  /\ outbound = "running"
  /\ getter = "waiting"
  /\ getter' = "idle"
  /\ queue' = <<>>
  /\ UNCHANGED <<calls, raised, sent, delivered>>
  /\ UNCHANGED flowVars
  /\ UNCHANGED <<envelopeVars, cacheVars, configVars, sessionVars, unitVars>>

outbound_timeout ==
  /\ outbound = "running"
  /\ getter = "waiting"
  /\ getter' = "idle"
  /\ UNCHANGED <<queue, calls, raised, sent, delivered>>
  /\ UNCHANGED flowVars
  /\ UNCHANGED <<envelopeVars, cacheVars, configVars, sessionVars, unitVars>>

\* The inbound loop receives the next response of the stream.
receive(r) ==
  /\ inbound = "waiting"
  /\ connection = "open"
  /\ response' = r
  /\ seq' = seq + 1
  /\ inbound' = StageAfter(r, 0)
  /\ UNCHANGED <<outbound, connection, origin, passes, close_called>>
  /\ UNCHANGED <<envelopeVars, queueVars, cacheVars, configVars, sessionVars, componentVars>>

\* The connection was asked to close: the response stream ends.
stream_ends ==
  /\ inbound = "waiting"
  /\ connection = "closing"
  /\ inbound' = "ended"
  /\ connection' = "closed"
  /\ UNCHANGED <<outbound, response, seq, origin, passes, close_called>>
  /\ UNCHANGED <<envelopeVars, queueVars, cacheVars, configVars, sessionVars, componentVars>>

\* The response is handled: the loop goes on to the next one.
next_response ==
  /\ inbound = "done"
  /\ inbound' = "waiting"
  /\ response' = NoResponse
  /\ passes' = IF fl.pc = "idle" THEN <<>> ELSE passes
  /\ UNCHANGED <<outbound, connection, seq, origin, close_called>>
  /\ UNCHANGED <<envelopeVars, queueVars, cacheVars, configVars, sessionVars, componentVars>>

\* The session event of a transcription: an event of its own.
TranscriptionEvent_AsModel(author, field, text) ==
  [author |-> "model", transcription |-> field, text |-> text]

TranscriptionEvent(author, field, text) ==
  [author |-> author, transcription |-> field, text |-> text]

\* The transcription handler appends the event to the session at once.
AppendTranscription(author, field, next) ==
  /\ events' = Append(events, TranscriptionEvent(author, field, response[field]))
  /\ origin' = Append(origin, seq)
  /\ inbound' = next
  /\ UNCHANGED <<artifact_service, input_audio_cache, output_audio_cache,
                 now, artifacts, fl, cache_calls, flush_calls, hist>>
  /\ UNCHANGED <<outbound, connection, response, seq, passes, close_called>>
  /\ UNCHANGED <<envelopeVars, queueVars, configVars, sessionVars, componentVars>>

handle_input_transcription ==
  /\ inbound = "input_transcription"
  /\ AppendTranscription("user", "input_transcription",
                         StageAfter(response, 1))

handle_output_transcription ==
  /\ inbound = "output_transcription"
  /\ AppendTranscription("model", "output_transcription",
                         StageAfter(response, 2))

\* Inline audio is cached on the side of its role, at its time of arrival t.
handle_audio(t) ==
  /\ inbound = "audio"
  /\ IF response.audio = "user"
       THEN cache_input_audio(InlineAudio, t)
       ELSE cache_output_audio(InlineAudio, t)
  /\ inbound' = StageAfter(response, 3)
  /\ UNCHANGED <<outbound, connection, response, seq, origin, passes,
                 close_called>>
  /\ UNCHANGED <<configVars, sessionVars, componentVars>>

\* One flush pass for the control flag acted on, with the pair the policy
\* has for it, up to the first await of flush_caches or to its return.
handle_control ==
  /\ inbound = "control"
  /\ LET kind == ControlKind(response)
         pair == get_flush_settings(control_event_config, kind).value
     IN /\ flush_caches(pair[1], pair[2])
        /\ passes' = Append(passes, [response |-> seq, kind |-> kind,
                                     pair |-> pair])
  /\ inbound' = AfterFlushStep
  /\ UNCHANGED <<outbound, connection, response, seq, origin, close_called>>
  /\ UNCHANGED <<configVars, sessionVars, componentVars>>

\* The awaited service calls of the flush pass return or raise; an event the
\* pass appends is triggered by the response the pass was made for.
flush_save_returns(ok) ==
  /\ save_artifact_returns(ok)
  /\ inbound' = AfterServiceCall
  /\ UNCHANGED <<outbound, connection, response, seq, origin, passes,
                 close_called>>
  /\ UNCHANGED <<configVars, sessionVars, componentVars>>

flush_append_returns(ok) ==
  /\ append_event_returns(ok)
  /\ origin' =
       IF ok THEN Append(origin, passes[Len(passes)].response) ELSE origin
  /\ inbound' = AfterServiceCall
  /\ UNCHANGED <<outbound, connection, response, seq, passes, close_called>>
  /\ UNCHANGED <<configVars, sessionVars, componentVars>>

\* A flow is constructed with a LiveFlowConfig.
NewLiveFlowConfig(enabled) ==
  /\ outbound = "idle"
  /\ enable_cache_statistics' = enabled
  /\ UNCHANGED <<stats, stats_log, session_error, dropped, componentVars>>
  /\ UNCHANGED <<envelopeVars, queueVars, cacheVars, configVars, flowVars>>

\* The statistics of the caches are logged after the flush attempt.
log_cache_statistics ==
  /\ inbound = "stats"
  /\ stats_log' =
       Append(stats_log,
              [response |-> seq,
               stats |-> get_cache_stats(input_audio_cache,
                                         output_audio_cache)])
  /\ inbound' = "done"
  /\ UNCHANGED <<outbound, connection, response, seq, origin, passes,
                 close_called>>
  /\ UNCHANGED <<stats, enable_cache_statistics, session_error, dropped,
                 componentVars>>
  /\ UNCHANGED <<envelopeVars, queueVars, cacheVars, configVars>>

\* A transient error in the handling of a response is caught and logged, and
\* the loop goes on to the next response.
AfterTransientError_Ends == "ended"

AfterTransientError == "done"

\* The handling of the response in hand raises an error that is not a fatal
\* connection error, at any of its stages.
handle_raises ==
  /\ inbound \in {"input_transcription", "output_transcription", "audio",
                  "control"}
  /\ dropped' = dropped \cup {seq}
  /\ inbound' = AfterTransientError
  /\ UNCHANGED <<outbound, connection, response, seq, origin, passes,
                 close_called>>
  /\ UNCHANGED <<stats, enable_cache_statistics, stats_log, session_error>>
  /\ UNCHANGED <<envelopeVars, queueVars, cacheVars, configVars,
                 componentVars>>

\* The model's response stream terminates unexpectedly: the inbound loop
\* makes a final flush of both caches before it ends.
stream_raises ==
  /\ inbound = "waiting"
  /\ connection = "open"
  /\ connection' = "failed"
  /\ flush_caches(TRUE, TRUE)
  /\ passes' = Append(passes, [response |-> seq, kind |-> "teardown",
                               pair |-> <<TRUE, TRUE>>])
  /\ inbound' = AfterFinalFlush
  /\ UNCHANGED <<outbound, response, seq, origin, close_called>>
  /\ UNCHANGED <<configVars, sessionVars, componentVars>>

\* The outbound loop of a failed connection is cancelled, in get() or out of
\* it.
outbound_cancelled ==
  /\ outbound = "running"
  /\ connection = "failed"
  /\ outbound' = "terminated"
  /\ getter' = "idle"
  /\ UNCHANGED <<queue, calls, raised, sent, delivered>>
  /\ UNCHANGED <<inbound, connection, response, seq, origin, passes,
                 close_called>>
  /\ UNCHANGED <<envelopeVars, cacheVars, configVars, sessionVars, componentVars>>

\* Both loops of a failed connection have ended: run_live raises the error to
\* its caller.
raise_to_caller ==
  /\ connection = "failed"
  /\ outbound = "terminated"
  /\ inbound = "ended"
  /\ session_error = None
  /\ session_error' = "ConnectionError"
  /\ UNCHANGED <<stats, enable_cache_statistics, stats_log, dropped,
                 componentVars>>
  /\ UNCHANGED <<envelopeVars, queueVars, cacheVars, configVars, flowVars>>

\* The state of the flow.
FlowState ==
  IF outbound = "idle" THEN "IDLE"
  ELSE IF outbound = "terminated" /\ inbound = "ended" THEN "TERMINATED"
  ELSE IF inbound \in {"control", "flushing"} THEN "FLUSHING"
  ELSE "STREAMING"

\* ------------------------------------------------------ ComputerUseToolset
MaxCallers == 2
MaxToolsetCalls == 3

Callers == 1..MaxCallers
ToolsetMethods == {"_ensure_initialized", "get_tools"}

\* A task that has not called the toolset.
NoCall == [pc |-> "idle", method |-> None]

Caller(pc, method) == [pc |-> pc, method |-> method]

\* _ensure_initialized, called directly or as the first statement of
\* get_tools, up to its await: when _initialized is false it calls
\* computer.initialize() and suspends, otherwise it returns. The rest of
\* get_tools reads the computer and changes nothing of the toolset.
ensure_initialized(c, method) ==
  /\ callers[c].pc # "initializing"
  /\ ensure_calls' = ensure_calls + 1
  /\ IF ~initialized
       THEN /\ initialize_calls' = initialize_calls + 1
            /\ callers' = [callers EXCEPT ![c] = Caller("initializing", method)]
       ELSE /\ callers' = [callers EXCEPT ![c] = Caller("returned", method)]
            /\ UNCHANGED initialize_calls
  /\ UNCHANGED <<initialized, initialize_failures>>

\* computer.initialize() returns to the call of task c, which sets
\* _initialized and returns.
initialize_returns(c) ==
  /\ callers[c].pc = "initializing"
  /\ initialized' = TRUE
  /\ callers' = [callers EXCEPT ![c].pc = "returned"]
  /\ UNCHANGED <<ensure_calls, initialize_calls, initialize_failures>>

\* computer.initialize() raises: the error leaves _ensure_initialized before
\* the assignment.
initialize_raises(c) ==
  /\ callers[c].pc = "initializing"
  /\ callers' = [callers EXCEPT ![c].pc = "raised"]
  /\ initialize_failures' = initialize_failures + 1
  /\ UNCHANGED <<initialized, ensure_calls, initialize_calls>>

ToolsetInit ==
  /\ initialized = FALSE
  /\ callers = [c \in Callers |-> NoCall]
  /\ ensure_calls = 0
  /\ initialize_calls = 0
  /\ initialize_failures = 0

\* --------------------------------------------------- ReflectAndRetryPlugin
MaxErrors == 4

\* The default of max_retries.
DefaultMaxRetries == 3

\* The values the plugin is constructed with: none is refused, so zero and
\* a negative number are among them.
MaxRetriesValues == -1..DefaultMaxRetries

InvocationIds == {"e-1", "e-2"}
ToolNames == {"search", "model"}

\* _get_retry_key: f"{context_id}:{operation}"
get_retry_key(context_id, operation) == context_id \o ":" \o operation

ToolOperation(name) == "tool:" \o name

RetryKeys ==
  {get_retry_key(i, "model") : i \in InvocationIds} \cup
  {get_retry_key(i, ToolOperation(n)) : i \in InvocationIds, n \in ToolNames}

\* _should_retry with the comparison off by one.
should_retry_Inclusive(retry_key) ==
  DictGet(retry_counts, retry_key, 0).value <= max_retries

\* _should_retry: self._retry_counts.get(retry_key, 0) < self.max_retries
should_retry(retry_key) ==
  DictGet(retry_counts, retry_key, 0).value < max_retries

\* _increment_retry_count: the dict after the assignment.
increment_retry_count(retry_key) ==
  [k \in DOMAIN retry_counts \cup {retry_key} |->
     IF k = retry_key
       THEN DictGet(retry_counts, retry_key, 0).value + 1
       ELSE retry_counts[k]]

\* What a callback returns: the kind of the response and, for a
\* ReflectAndRetryPluginResponse, <<retry_count>>.
Outcome(kind, retry_count) == [kind |-> kind, retry_count |-> retry_count]
NoOutcome == Outcome("none", <<>>)

Reported(retry_key) ==
  errors' = [errors EXCEPT ![retry_key] = errors[retry_key] + 1]

\* on_tool_error_callback: past the limit it returns
\* _get_tool_retry_exceed_msg, whose retry_count is max_retries; otherwise it
\* increments the count and returns the reflection response with the new
\* count.
on_tool_error_callback(invocation_id, tool_name) ==
  LET retry_key == get_retry_key(invocation_id, ToolOperation(tool_name))
  IN  /\ IF ~should_retry(retry_key)
           THEN /\ outcome' = Outcome("tool_retry_exceed", <<max_retries>>)
                /\ UNCHANGED retry_counts
           ELSE /\ retry_counts' = increment_retry_count(retry_key)
                /\ outcome' =
                     Outcome("tool_reflection", <<retry_counts'[retry_key]>>)
      /\ Reported(retry_key)
      /\ UNCHANGED max_retries

\* on_model_error_callback: past the limit it returns the LlmResponse of
\* _get_model_retry_exceed_msg; otherwise it increments the count and
\* returns ModelErrorStrategy.RETRY.
on_model_error_callback(invocation_id) ==
  LET retry_key == get_retry_key(invocation_id, "model")
  IN  /\ IF ~should_retry(retry_key)
           THEN /\ outcome' = Outcome("model_retry_exceed", <<max_retries>>)
                /\ UNCHANGED retry_counts
           ELSE /\ retry_counts' = increment_retry_count(retry_key)
                /\ outcome' = Outcome("ModelErrorStrategy.RETRY", <<>>)
      /\ Reported(retry_key)
      /\ UNCHANGED max_retries

\* ReflectAndRetryPlugin(max_retries=n): no count is stored.
ReflectAndRetryPlugin(n) ==
  /\ max_retries = n
  /\ retry_counts = <<>>
  /\ outcome = NoOutcome
  /\ errors = [k \in RetryKeys |-> 0]

\* ------------------------------------------------- context reduction
MaxMessages == 4
MaxLimit == 3

Roles == {"user", "model"}

\* A message of a request: its role, and a text that tells it from the
\* others.
Message(role, text) == [role |-> role, text |-> text]

\* The contents of a request of n messages: message i has the text i.
ContentsOfLength(n) ==
  {[i \in 1..n |-> Message(r[i], i)] : r \in [1..n -> Roles]}

AllContents == UNION {ContentsOfLength(n) : n \in 0..MaxMessages}

\* The limits a strategy is constructed with: any int is accepted.
Limits == -1..MaxLimit

\* history[-k:] for k > 0: the last k items, or all of them.
LastItems(s, k) == SubSeq(s, IF k < Len(s) THEN Len(s) - k + 1 ELSE 1, Len(s))

\* history[i:] for 0 <= i <= len(history)
ItemsFrom(s, i) == SubSeq(s, i + 1, Len(s))

\* TotalMessagesStrategy.reduce: the contents it leaves in the request, or
\* the error it raises (contents[0] of an empty list).
TotalMessagesStrategy_reduce(c, limit) ==
  IF Len(c) > limit
    THEN IF c = <<>>
           THEN Raises("IndexError")
           ELSE LET system_prompt == Head(c)
                    history == Tail(c)
                    history_to_keep_count == limit - 1
                    reduced_history ==
                      IF history_to_keep_count > 0
                        THEN LastItems(history, history_to_keep_count)
                        ELSE <<>>
                IN  Returns(<<system_prompt>> \o reduced_history)
    ELSE Returns(c)

\* sum(1 for msg in history if msg.role == "user")
RECURSIVE UserMessages(_)
UserMessages(history) ==
  IF history = <<>> THEN 0
  ELSE BoolToInt(Head(history).role = "user") + UserMessages(Tail(history))

\* The backwards loop of UserMessagesStrategy.reduce from index i (0-based)
\* with user_message_count users counted so far: the cutoff index it ends
\* with.
RECURSIVE CutoffIndex(_, _, _, _)
CutoffIndex(history, i, user_message_count, limit) ==
  IF i < 0 THEN Len(history)
  ELSE LET counted ==
             user_message_count
               + BoolToInt(history[i + 1].role = "user")
       IN  IF counted >= limit
             THEN i
             ELSE CutoffIndex(history, i - 1, counted, limit)

\* UserMessagesStrategy.reduce: the contents it leaves in the request.
UserMessagesStrategy_reduce(c, limit) ==
  IF Len(c) <= 1 THEN Returns(c)
  ELSE LET history == Tail(c)
       IN  IF UserMessages(history) <= limit THEN Returns(c)
           ELSE LET cutoff_index ==
                      CutoffIndex(history, Len(history) - 1, 0, limit)
                IN  Returns(<<Head(c)>> \o ItemsFrom(history, cutoff_index))

\* A strategy constructed with a limit, and a request with its contents.
NewStrategy(kind, limit, c) ==
  /\ strategy = [kind |-> kind, limit |-> limit]
  /\ contents = c
  /\ original = c
  /\ reduce_outcome = "not called"

\* strategy.reduce(llm_request): the request's contents are replaced unless
\* the call raises.
reduce(kind, res) ==
  /\ strategy.kind = kind
  /\ original' = contents
  /\ contents' = IF res.raised THEN contents ELSE res.value
  /\ reduce_outcome' = IF res.raised THEN res.value ELSE "returned"
  /\ UNCHANGED strategy

total_reduce ==
  reduce("TotalMessagesStrategy",
         TotalMessagesStrategy_reduce(contents, strategy.limit))

user_reduce ==
  reduce("UserMessagesStrategy",
         UserMessagesStrategy_reduce(contents, strategy.limit))

\* ----------------------------------------------------- InMemoryAgentLoader
\* The agent names of the model, in alphabetical order, and a name no
\* loader was given.
AgentNames == <<"agent_a", "agent_b", "agent_c">>
UnknownName == "nonexistent_agent"

\* The agent objects of the model, by identity.
AgentObjects == {1, 2}
NoAgent == 0

\* A dict keeps its items in insertion order: it is the sequence of its
\* (key, value) items, without two items of one key.
Item(key, value) == [key |-> key, value |-> value]

Keys(d) == [i \in 1..Len(d) |-> d[i].key]

HasKey(d, key) == \E i \in 1..Len(d) : d[i].key = key

\* d[key] of a dict that has the key.
Subscript(d, key) == d[CHOOSE i \in 1..Len(d) : d[i].key = key].value

\* d[key] = value: the value of a key the dict has is replaced in place, a
\* new key goes last.
SetItem(d, key, value) ==
  IF HasKey(d, key)
    THEN [i \in 1..Len(d) |->
            IF d[i].key = key THEN Item(key, value) ELSE d[i]]
    ELSE Append(d, Item(key, value))

\* The mappings a loader is constructed with: up to three agents under
\* different names, in any order.
RECURSIVE MappingsOfLength(_)
MappingsOfLength(n) ==
  IF n = 0 THEN {<<>>}
  ELSE {Append(d, Item(AgentNames[k], a)) :
          d \in MappingsOfLength(n - 1), k \in DOMAIN AgentNames,
          a \in AgentObjects}

Mappings ==
  {d \in UNION {MappingsOfLength(n) : n \in 0..Len(AgentNames)} :
     \A i, j \in 1..Len(d) : d[i].key = d[j].key => i = j}

\* The loop of __init__: the items of the mapping are set in its order.
RECURSIVE FillCache(_, _)
FillCache(cache, items) ==
  IF items = <<>> THEN cache
  ELSE FillCache(SetItem(cache, Head(items).key, Head(items).value),
                 Tail(items))

LoaderResult(kind, names, agent, key) ==
  [kind |-> kind, names |-> names, agent |-> agent, key |-> key]

\* InMemoryAgentLoader(agents)
InMemoryAgentLoader(mapping) ==
  /\ agents = mapping
  /\ agent_cache = FillCache(<<>>, mapping)
  /\ loader_result = LoaderResult("none", <<>>, NoAgent, "")

\* load_agent: self._agent_cache[agent_name], which raises KeyError for a
\* name that is not a key.
load_agent(agent_name) ==
  /\ loader_result' =
       IF HasKey(agent_cache, agent_name)
         THEN LoaderResult("agent", <<>>, Subscript(agent_cache, agent_name),
                           agent_name)
         ELSE LoaderResult("KeyError", <<>>, NoAgent, agent_name)
  /\ UNCHANGED <<agents, agent_cache>>

\* list_agents: list(self._agent_cache.keys())
list_agents ==
  /\ loader_result' = LoaderResult("list", Keys(agent_cache), NoAgent, "")
  /\ UNCHANGED <<agents, agent_cache>>

\* ------------------------------------------------------------------- specs
vars == <<envelopeVars, queueVars, cacheVars, restVars>>

CoreInit ==
  /\ kwargs = NoKwargs
  /\ result = "none"
  /\ built = NoRequest
  /\ queue = <<>>
  /\ getter = "idle"
  /\ calls = 0
  /\ raised = FALSE
  /\ sent = <<>>
  /\ delivered = <<>>
  /\ artifact_service \in BOOLEAN
  /\ input_audio_cache = AbsentCache
  /\ output_audio_cache = AbsentCache
  /\ now = StartTime
  /\ artifacts = <<>>
  /\ events = <<>>
  /\ fl = FlushState("idle", FALSE, FALSE, NoPending)
  /\ cache_calls = 0
  /\ flush_calls = 0
  /\ hist = [NewHistory EXCEPT !.called = FALSE]
  /\ control_event_config = ControlEventConfig(<<>>)
  /\ config_kwargs = <<>>
  /\ event_type = NotCalled
  /\ settings = Returns(<<FALSE, FALSE>>)
  /\ outbound = "idle"
  /\ inbound = "idle"
  /\ connection = "open"
  /\ response = NoResponse
  /\ seq = 0
  /\ origin = <<>>
  /\ passes = <<>>
  /\ close_called = FALSE
  /\ stats = NoStats
  /\ enable_cache_statistics = FALSE
  /\ stats_log = <<>>
  /\ session_error = None
  /\ dropped = {}
  /\ cache_config = DefaultAudioCacheConfig
  /\ last_timeout = NoTimeout

\* No call was made on a toolset, a plugin, a strategy or a loader.
RetryInit == ReflectAndRetryPlugin(DefaultMaxRetries)

ReduceIdle == NewStrategy("TotalMessagesStrategy", 1, <<>>)

LoaderIdle == InMemoryAgentLoader(<<>>)

Init == CoreInit /\ ToolsetInit /\ RetryInit /\ ReduceIdle /\ LoaderIdle

EnvelopeNext ==
  (\E k \in Kwargs : NewLiveRequest(k)) /\ UNCHANGED restVars

EnvelopeSpec == Init /\ [][EnvelopeNext]_vars

\* The model stops making producer calls after MaxSends of them; the calls
\* themselves have no guard.
MayCall == calls < MaxSends

QueueNext ==
  \/ MayCall /\ close /\ UNCHANGED restVars
  \/ MayCall /\ (\E c \in ContentValues \ {None} : send_content(c))
       /\ UNCHANGED restVars
  \/ MayCall /\ (\E b \in BlobValues \ {None} : send_realtime(b))
       /\ UNCHANGED restVars
  \/ MayCall /\ send_activity_start /\ UNCHANGED restVars
  \/ MayCall /\ send_activity_end /\ UNCHANGED restVars
  \/ MayCall /\ (\E r \in CallerRequests : send(r)) /\ UNCHANGED restVars
  \/ get_call /\ UNCHANGED restVars
  \/ get_resume /\ UNCHANGED restVars

QueueSpec == Init /\ [][QueueNext]_vars

QueueFairSpec == QueueSpec /\ WF_vars(get_resume /\ UNCHANGED restVars)

\* The model stops making cache_* calls after MaxCacheCalls of them and
\* flush_caches calls after MaxFlushCalls; the clock stops at MaxTime.
MayCache == cache_calls < MaxCacheCalls
MayFlush == flush_calls < MaxFlushCalls

CacheNext ==
  \/ MayCache
       /\ (\E b \in AudioBlobs, t \in StartTime..MaxTime :
             cache_input_audio(b, t))
       /\ UNCHANGED restVars
  \/ MayCache
       /\ (\E b \in AudioBlobs, t \in StartTime..MaxTime :
             cache_output_audio(b, t))
       /\ UNCHANGED restVars
  \/ MayFlush /\ (\E u, m \in BOOLEAN : flush_caches(u, m))
       /\ UNCHANGED restVars
  \/ (\E ok \in BOOLEAN : save_artifact_returns(ok)) /\ UNCHANGED restVars
  \/ (\E ok \in BOOLEAN : append_event_returns(ok)) /\ UNCHANGED restVars

CacheSpec == Init /\ [][CacheNext]_vars

\* The chunk the next cache_* call is made with.
NextChunk == ChunkBlob(cache_calls + 1)

PersistNext ==
  \/ MayCache /\ cache_input_audio(NextChunk, now) /\ UNCHANGED restVars
  \/ MayCache /\ cache_output_audio(NextChunk, now) /\ UNCHANGED restVars
  \/ MayFlush /\ (\E u, m \in BOOLEAN : flush_caches(u, m))
       /\ UNCHANGED restVars
  \/ (\E ok \in BOOLEAN : save_artifact_returns(ok)) /\ UNCHANGED restVars
  \/ (\E ok \in BOOLEAN : append_event_returns(ok)) /\ UNCHANGED restVars

PersistSpec == Init /\ [][PersistNext]_vars

StatsNext ==
  \/ MayCache /\ cache_input_audio(NextChunk, now) /\ UNCHANGED restVars
  \/ MayCache /\ cache_output_audio(NextChunk, now) /\ UNCHANGED restVars
  \/ MayFlush /\ (\E u, m \in BOOLEAN : flush_caches(u, m))
       /\ UNCHANGED restVars
  \/ (\E ok \in BOOLEAN : save_artifact_returns(ok)) /\ UNCHANGED restVars
  \/ (\E ok \in BOOLEAN : append_event_returns(ok)) /\ UNCHANGED restVars
  \/ get_cache_stats_call
       /\ UNCHANGED <<enable_cache_statistics, stats_log, session_error,
                      dropped>>
       /\ UNCHANGED <<configVars, flowVars, componentVars>>

StatsSpec == Init /\ [][StatsNext]_vars

\* A manager constructed with any of the configurations, then PersistSpec's
\* calls while the clock runs.
ThresholdNext ==
  \/ (\E c \in ConfigArgs : AudioCacheManager(c))
       /\ UNCHANGED <<configVars, flowVars, sessionVars, last_timeout>>
       /\ UNCHANGED <<toolsetVars, retryVars, reduceVars, loaderVars>>
  \/ MayCache /\ (\E t \in now..MaxTime : cache_input_audio(NextChunk, t))
       /\ UNCHANGED restVars
  \/ MayCache /\ (\E t \in now..MaxTime : cache_output_audio(NextChunk, t))
       /\ UNCHANGED restVars
  \/ MayFlush /\ (\E u, m \in BOOLEAN : flush_caches(u, m))
       /\ UNCHANGED restVars
  \/ (\E ok \in BOOLEAN : save_artifact_returns(ok)) /\ UNCHANGED restVars
  \/ (\E ok \in BOOLEAN : append_event_returns(ok)) /\ UNCHANGED restVars

ThresholdSpec == Init /\ [][ThresholdNext]_vars

ConfigNext ==
  \/ (\E kw \in ConfigKwargs : NewControlEventConfig(kw))
       /\ UNCHANGED <<flowVars, sessionVars, componentVars>>
  \/ (\E key \in EventTypes : get_flush_settings_call(key))
       /\ UNCHANGED <<flowVars, sessionVars, componentVars>>

ConfigSpec == Init /\ [][ConfigNext]_vars

\* The model receives MaxResponses responses at most.
MayReceive == seq < MaxResponses

CallerStep ==
  \/ MayCall /\ \E c \in ContentValues \ {None} : caller_send_content(c)
  \/ MayCall /\ caller_close

OutboundStep ==
  \/ outbound_get
  \/ outbound_resume
  \/ outbound_timeout /\ UNCHANGED last_timeout

\* The inbound loop handles the response in hand; the clock reads the same
\* while the modelled stream lasts.
HandleStep ==
  \/ next_response
  \/ handle_input_transcription
  \/ handle_output_transcription
  \/ handle_audio(now)
  \/ handle_control
  \/ \E ok \in BOOLEAN : flush_save_returns(ok)
  \/ \E ok \in BOOLEAN : flush_append_returns(ok)

InboundNext ==
  \/ \E kw \in FlowConfigs : configure(kw)
  \/ run_live
  \/ MayReceive /\ \E r \in Responses : receive(r)
  \/ HandleStep

InboundSpec == Init /\ [][InboundNext]_vars

InboundStep ==
  \/ MayReceive /\ \E r \in LiveResponses : receive(r)
  \/ stream_ends
  \/ HandleStep

FlowNext ==
  \/ run_live
  \/ CallerStep
  \/ OutboundStep
  \/ InboundStep

FlowSpec == Init /\ [][FlowNext]_vars

\* Both loops are tasks of one event loop: a loop that can take a step
\* takes one.
FlowFairSpec ==
  FlowSpec /\ WF_vars(OutboundStep) /\ WF_vars(InboundStep)

\* The caller and the outbound loop alone, with the history of the loop's
\* last timed-out wait: what the queue held and how many requests the loop
\* had got when the wait timed out.
TimedOut ==
  last_timeout' =
    [happened |-> TRUE, pending |-> queue, got |-> Len(delivered)]

PumpStep ==
  \/ outbound_get
  \/ outbound_resume
  \/ outbound_timeout /\ TimedOut

PumpNext ==
  \/ run_live
  \/ CallerStep
  \/ PumpStep

PumpSpec == Init /\ [][PumpNext]_vars

\* The outbound loop is a task of the event loop: when it can take a step it
\* takes one.
PumpFairSpec == PumpSpec /\ WF_vars(PumpStep)

\* Tasks calling one toolset, each call overlapping the others' or not; the
\* model stops making calls after MaxToolsetCalls of them.
coreVars ==
  <<envelopeVars, queueVars, cacheVars, configVars, flowVars, sessionVars,
    last_timeout, cache_config>>

ToolsetNext ==
  \/ /\ ensure_calls < MaxToolsetCalls
     /\ \E c \in Callers, m \in ToolsetMethods : ensure_initialized(c, m)
     /\ UNCHANGED <<coreVars, retryVars, reduceVars, loaderVars>>
  \/ /\ \E c \in Callers : initialize_returns(c)
     /\ UNCHANGED <<coreVars, retryVars, reduceVars, loaderVars>>
  \/ /\ \E c \in Callers : initialize_raises(c)
     /\ UNCHANGED <<coreVars, retryVars, reduceVars, loaderVars>>

ToolsetSpec == Init /\ [][ToolsetNext]_vars

\* A plugin constructed with any of the values, and the errors of two
\* invocations; the model stops reporting errors after MaxErrors of them.
RECURSIVE SumOver(_, _)
SumOver(f, S) ==
  IF S = {} THEN 0
  ELSE LET k == CHOOSE x \in S : TRUE IN f[k] + SumOver(f, S \ {k})

MayFail == SumOver(errors, RetryKeys) < MaxErrors

RetryInitAny ==
  /\ CoreInit /\ ToolsetInit /\ ReduceIdle /\ LoaderIdle
  /\ \E n \in MaxRetriesValues : ReflectAndRetryPlugin(n)

RetryNext ==
  \/ /\ MayFail
     /\ \E i \in InvocationIds, n \in ToolNames : on_tool_error_callback(i, n)
     /\ UNCHANGED <<coreVars, toolsetVars, reduceVars, loaderVars>>
  \/ /\ MayFail
     /\ \E i \in InvocationIds : on_model_error_callback(i)
     /\ UNCHANGED <<coreVars, toolsetVars, reduceVars, loaderVars>>

RetrySpec == RetryInitAny /\ [][RetryNext]_vars

\* Either strategy with any of the limits, called on a request with any of
\* the contents, and called again on what it left.
ReduceInit ==
  /\ CoreInit /\ ToolsetInit /\ RetryInit /\ LoaderIdle
  /\ \E kind \in {"TotalMessagesStrategy", "UserMessagesStrategy"},
        limit \in Limits, c \in AllContents :
       NewStrategy(kind, limit, c)

ReduceNext ==
  \/ total_reduce
       /\ UNCHANGED <<coreVars, toolsetVars, retryVars, loaderVars>>
  \/ user_reduce
       /\ UNCHANGED <<coreVars, toolsetVars, retryVars, loaderVars>>

ReduceSpec == ReduceInit /\ [][ReduceNext]_vars

\* A loader constructed with any of the mappings, and calls of its methods
\* with the names of the model and with an unknown name.
LoaderInit ==
  /\ CoreInit /\ ToolsetInit /\ RetryInit /\ ReduceIdle
  /\ \E d \in Mappings : InMemoryAgentLoader(d)

LoaderNext ==
  \/ /\ \E k \in DOMAIN AgentNames : load_agent(AgentNames[k])
     /\ UNCHANGED <<coreVars, toolsetVars, retryVars, reduceVars>>
  \/ /\ load_agent(UnknownName)
     /\ UNCHANGED <<coreVars, toolsetVars, retryVars, reduceVars>>
  \/ /\ list_agents
     /\ UNCHANGED <<coreVars, toolsetVars, retryVars, reduceVars>>

LoaderSpec == LoaderInit /\ [][LoaderNext]_vars

\* The responses of the streams of a session: user audio, model audio at the
\* end of a turn, an interruption, and the transcriptions of both sides.
SessionResponses ==
  {r \in Responses :
     \/ r = [NoResponse EXCEPT !.audio = "user"]
     \/ r = [NoResponse EXCEPT !.audio = "model", !.turn_complete = TRUE]
     \/ r = [NoResponse EXCEPT !.interrupted = TRUE]
     \/ r = [NoResponse EXCEPT !.input_transcription = "input text",
                               !.output_transcription = "output text"]}

SessionNext ==
  \/ \E enabled \in BOOLEAN : NewLiveFlowConfig(enabled)
  \/ run_live
  \/ outbound_get
  \/ outbound_timeout /\ UNCHANGED last_timeout
  \/ outbound_cancelled
  \/ MayReceive /\ \E r \in SessionResponses : receive(r)
  \/ HandleStep
  \/ log_cache_statistics
  \/ handle_raises
  \/ stream_raises
  \/ raise_to_caller

SessionSpec == Init /\ [][SessionNext]_vars

\* The tasks of the session are tasks of one event loop: the inbound loop
\* goes on with the response in hand, a cancellation is delivered, and
\* run_live returns when both loops have ended.
SessionFairSpec ==
  /\ SessionSpec
  /\ WF_vars(HandleStep)
  /\ WF_vars(log_cache_statistics)
  /\ WF_vars(outbound_cancelled)
  /\ WF_vars(raise_to_caller)

\* ------------------------------------------------------------------ claims

\* C1: the requests get() has returned, followed by the requests still in the
\* queue, are exactly the requests enqueued, in enqueue order: none lost,
\* none duplicated, none reordered, for every mix of producer calls.
C1_Fifo == delivered \o queue = sent

\* Two different requests were enqueued and both came back out.
C1_Witness ==
  /\ Len(delivered) = 2
  /\ delivered[1] # delivered[2]
  /\ delivered[1].close

\* The condition under which the claim says construction fails.
ClaimedInvalid(k) ==
  LET as == k.activity_start = "True"
      ae == k.activity_end = "True"
      cl == k.close = "True"
  IN \/ BoolToInt(as) + BoolToInt(ae) + BoolToInt(cl) >= 2
     \/ (as \/ ae) /\ (k.content # None \/ k.blob # None)

\* C2: LiveRequest(...) raises a validation error exactly when two of
\* activity_start, activity_end, close are true or an activity signal comes
\* with a content or a blob; every other combination constructs.
C2_Exclusivity ==
  result # "none" =>
    /\ (result = "ValidationError") <=> ClaimedInvalid(kwargs)
    /\ result = "ok" =>
         /\ built.content = kwargs.content
         /\ built.blob = kwargs.blob
         /\ \A i \in 1..3 :
              built[SignalFields[i]] = (kwargs[SignalFields[i]] = "True")

\* A single activity signal with a content was refused.
C2_Witness ==
  /\ result = "ValidationError"
  /\ kwargs.content # None
  /\ kwargs.activity_end = "True"
  /\ kwargs.activity_start # "True"
  /\ kwargs.close # "True"

\* C3: every request get() ever returned satisfies the envelope invariant,
\* whichever producer enqueued it, send(request) included.
C3_NeverInvalid ==
  \A i \in 1..Len(delivered) : EnvelopeValid(delivered[i])

\* What one producer call does to the queue.
ProducerEffect ==
  calls' # calls =>
    /\ ~raised'
    /\ Len(queue') = Len(queue) + 1
    /\ SubSeq(queue', 1, Len(queue)) = queue
    /\ sent' = Append(sent, queue'[Len(queue')])
    /\ getter' = getter
    /\ delivered' = delivered

AllProducersEnabled ==
  /\ ENABLED close
  /\ \A c \in ContentValues \ {None} : ENABLED send_content(c)
  /\ \A b \in BlobValues \ {None} : ENABLED send_realtime(b)
  /\ ENABLED send_activity_start
  /\ ENABLED send_activity_end
  /\ \A r \in CallerRequests : ENABLED send(r)

\* C4: in every reachable state each producer call is enabled, and each
\* producer call completes in one step that appends exactly one request to
\* the tail of the queue and touches nothing of the consumer.
C4_NonBlocking ==
  /\ []AllProducersEnabled
  /\ [][ProducerEffect]_vars

\* A producer call made behind an enqueued close, with the consumer suspended
\* in between.
C4_Witness ==
  /\ Len(queue) = 1
  /\ Len(delivered) = 1
  /\ delivered[1].close
  /\ getter = "waiting"

\* C5: get() returns only when the queue holds an item, and returns the head;
\* a consumer suspended in get() with an item enqueued is eventually resumed
\* (the consumer being scheduled fairly).
C5_GetSuspends ==
  /\ [][delivered' # delivered =>
          /\ queue # <<>>
          /\ delivered' = Append(delivered, Head(queue))
          /\ queue' = Tail(queue)
          /\ getter' = "idle"]_vars
  /\ [][(getter = "idle" /\ getter' = "waiting") => queue = <<>>]_vars
  /\ ((getter = "waiting" /\ queue # <<>>) ~> (getter = "idle"))

\* The consumer has received one request, is suspended in the next get(), and
\* a producer has enqueued behind it.
C5_Witness ==
  /\ getter = "waiting"
  /\ queue # <<>>
  /\ Len(delivered) >= 1

\* ------------------------------------------- claims: the audio cache manager
\* The last flush_caches call has returned and no cache_* call was made since
\* it was called: the state flush_caches leaves behind.
Returned == hist.called /\ fl.pc = "idle" /\ ~hist.touched

Sides == {"user", "model"}
CacheOf(side) ==
  IF side = "user" THEN input_audio_cache ELSE output_audio_cache
BeforeOf(side) == IF side = "user" THEN hist.input ELSE hist.output
Requested(side) ==
  IF side = "user" THEN fl.flush_user_audio ELSE fl.flush_model_audio
RoleOf(side) == side

\* The save_artifact calls the last flush made for a side.
SavesOf(side) == SelectSeq(hist.saves, LAMBDA c : c.side = side)

\* The artifacts and events the last flush added.
NewArtifacts == SubSeq(artifacts, hist.artifacts + 1, Len(artifacts))
NewEvents == SubSeq(events, hist.events + 1, Len(events))

\* The bytes of the first n entries, in append order.
RECURSIVE BytesOfFirst(_, _)
BytesOfFirst(entries, n) ==
  IF n = 0 THEN <<>>
  ELSE BytesOfFirst(entries, n - 1) \o entries[n].data.data

\* C6: a flush with both sides enabled, an artifact service configured and
\* every service call succeeding makes exactly one save_artifact call for
\* each side that held chunks, with the side's bytes concatenated in append
\* order, saves exactly that artifact, makes no call for an empty side, and
\* leaves each flushed cache with length 0.
C6_RoundTrip ==
  (/\ Returned
   /\ fl.flush_user_audio /\ fl.flush_model_audio
   /\ artifact_service
   /\ hist.failed = {}) =>
    /\ \A side \in Sides :
         IF NotCache(BeforeOf(side))
           THEN SavesOf(side) = <<>>
           ELSE /\ Len(SavesOf(side)) = 1
                /\ SavesOf(side)[1].data =
                     BytesOfFirst(BeforeOf(side).entries,
                                  Len(BeforeOf(side).entries))
                /\ \E i \in 1..Len(NewArtifacts) :
                     /\ NewArtifacts[i].side = side
                     /\ NewArtifacts[i].data = SavesOf(side)[1].data
                /\ Len(CacheOf(side).entries) = 0
    /\ Len(NewArtifacts) = Len(hist.saves)

\* Two chunks with different bytes were cached on the user side, one chunk on
\* no other side, and the flush saved them as one artifact.
C6_Witness ==
  /\ Returned
  /\ fl.flush_user_audio /\ fl.flush_model_audio
  /\ hist.failed = {}
  /\ Len(hist.input.entries) = 2
  /\ hist.input.entries[1].data.data # hist.input.entries[2].data.data
  /\ Len(NewArtifacts) = 1
  /\ NewArtifacts[1].data = <<1, 2>>
  /\ input_audio_cache = EmptyList

\* C7: a returned flush has left every side it was not asked to flush exactly
\* as it was and has made no save_artifact call for it; a side it was asked
\* to flush is empty afterwards (an artifact service being configured and the
\* service calls succeeding); with (False, False) no service call was made
\* and nothing was saved or appended.
C7_Selective ==
  Returned =>
    /\ \A side \in Sides :
         /\ ~Requested(side) =>
              /\ CacheOf(side) = BeforeOf(side)
              /\ SavesOf(side) = <<>>
         /\ (Requested(side) /\ artifact_service /\ hist.failed = {}) =>
              Len(CacheOf(side).entries) = 0
    /\ (~fl.flush_user_audio /\ ~fl.flush_model_audio) =>
         /\ hist.saves = <<>>
         /\ hist.appends = 0
         /\ NewArtifacts = <<>>
         /\ NewEvents = <<>>

\* flush_caches(False, True) with both caches holding a chunk: the user cache
\* is as it was and the model cache is empty.
C7_Witness ==
  /\ Returned
  /\ ~fl.flush_user_audio /\ fl.flush_model_audio
  /\ Len(hist.input.entries) = 1
  /\ Len(hist.output.entries) = 1
  /\ input_audio_cache = hist.input
  /\ output_audio_cache = EmptyList

\* C8: a returned flush has made no save_artifact call and appended no event
\* for a requested side whose cache was absent or empty, and has left that
\* cache as it was (absent stays absent); when no requested side held an
\* entry, no service call was made and the artifacts and the event log are
\* as they were.
C8_EmptyNoop ==
  Returned =>
    /\ \A side \in Sides :
         (Requested(side) /\ NotCache(BeforeOf(side))) =>
           /\ SavesOf(side) = <<>>
           /\ \A i \in 1..Len(NewEvents) : NewEvents[i].author # RoleOf(side)
           /\ CacheOf(side) = BeforeOf(side)
    /\ (\A side \in Sides : Requested(side) => NotCache(BeforeOf(side))) =>
         /\ hist.saves = <<>>
         /\ hist.appends = 0
         /\ NewArtifacts = <<>>
         /\ NewEvents = <<>>
         /\ input_audio_cache = hist.input
         /\ output_audio_cache = hist.output

\* Both sides were flushed with the model cache absent and the user cache
\* holding a chunk: the user side was saved, the model cache is still absent.
C8_Witness ==
  /\ Returned
  /\ fl.flush_user_audio /\ fl.flush_model_audio
  /\ hist.output = AbsentCache
  /\ output_audio_cache = AbsentCache
  /\ Len(NewArtifacts) = 1
  /\ Len(NewEvents) = 1

\* A step of the flush in which an awaited service call raised.
ServiceCallRaised ==
  /\ fl' # fl
  /\ \/ fl.pc \in {"user_save", "model_save"} /\ artifacts' = artifacts
     \/ fl.pc \in {"user_append", "model_append"} /\ events' = events

\* C9: no exception escapes flush_caches, and a failing service call changes
\* neither cache: the step in which save_artifact or append_event raises
\* leaves both caches as they are, and on return a side whose flush failed
\* (or was skipped for want of an artifact service) holds exactly the entries
\* it held when flush_caches was called.
C9_FailureKeepsBuffer ==
  /\ [](fl.pc # "raised")
  /\ [](Returned =>
          \A side \in Sides :
            (side \in hist.failed \/ ~artifact_service) =>
              CacheOf(side) = BeforeOf(side))
  /\ [][ServiceCallRaised =>
          /\ input_audio_cache' = input_audio_cache
          /\ output_audio_cache' = output_audio_cache]_vars

\* The user side's artifact was saved, append_event then raised, and the two
\* chunks are still in the cache.
C9_Witness ==
  /\ Returned
  /\ "user" \in hist.failed
  /\ Len(NewArtifacts) = 1
  /\ NewEvents = <<>>
  /\ Len(input_audio_cache.entries) = 2
  /\ input_audio_cache = hist.input

\* C10: without an artifact service flush_caches never reaches a service call
\* and never raises, nothing is ever saved or appended to the session, and a
\* returned flush has left both caches as they were, for every argument
\* combination.
C10_NoArtifactService ==
  ~artifact_service =>
    /\ fl.pc = "idle"
    /\ artifacts = <<>>
    /\ events = <<>>
    /\ Returned =>
         /\ input_audio_cache = hist.input
         /\ output_audio_cache = hist.output
         /\ hist.saves = <<>>
         /\ hist.appends = 0

\* Both sides were flushed without an artifact service, each cache holding a
\* chunk.
C10_Witness ==
  /\ ~artifact_service
  /\ Returned
  /\ fl.flush_user_audio /\ fl.flush_model_audio
  /\ Len(input_audio_cache.entries) = 1
  /\ Len(output_audio_cache.entries) = 1

\* The flush of a side succeeded: it was requested, the cache held entries,
\* an artifact service is configured and no service call raised.
Succeeded(side) ==
  /\ Requested(side)
  /\ ~NotCache(BeforeOf(side))
  /\ artifact_service
  /\ side \notin hist.failed

\* The events and artifacts the last flush added for a side.
EventsOf(side) == SelectSeq(NewEvents, LAMBDA e : e.author = RoleOf(side))
ArtifactsOf(side) == SelectSeq(NewArtifacts, LAMBDA a : a.side = side)

\* The event refers to the artifact by
\* artifact://{app}/{user}/{session}/{filename}#{revision} in its only part.
RefersTo(e, artifact) ==
  /\ Len(e.parts) = 1
  /\ e.parts[1].file_uri.scheme = "artifact"
  /\ e.parts[1].file_uri.app_name = AppName
  /\ e.parts[1].file_uri.user_id = UserId
  /\ e.parts[1].file_uri.session_id = SessionId
  /\ e.parts[1].file_uri.filename = artifact.filename
  /\ e.parts[1].file_uri.revision = artifact.revision

\* C11: a returned flush has appended exactly one session event for each side
\* it flushed successfully and none for any other side; the event's author
\* and content role are the role of the first buffered entry, its timestamp
\* is that entry's timestamp, and its single part refers to the artifact this
\* flush saved, with the revision save_artifact returned.  Every step that
\* changes the event log during a flush appends one such event.
C11_OneEventPerFlush ==
  /\ [](Returned =>
          \A side \in Sides :
            IF Succeeded(side)
              THEN /\ Len(EventsOf(side)) = 1
                   /\ Len(ArtifactsOf(side)) = 1
                   /\ EventsOf(side)[1].author = BeforeOf(side).entries[1].role
                   /\ EventsOf(side)[1].role = BeforeOf(side).entries[1].role
                   /\ EventsOf(side)[1].timestamp =
                        BeforeOf(side).entries[1].timestamp
                   /\ RefersTo(EventsOf(side)[1], ArtifactsOf(side)[1])
              ELSE EventsOf(side) = <<>>)
  /\ [][events' # events =>
          /\ Len(events') = Len(events) + 1
          /\ SubSeq(events', 1, Len(events)) = events
          /\ events'[Len(events')].author = FlushedCache.entries[1].role
          /\ events'[Len(events')].role = FlushedCache.entries[1].role
          /\ events'[Len(events')].timestamp =
               FlushedCache.entries[1].timestamp
          /\ RefersTo(events'[Len(events')], artifacts[Len(artifacts)])]_vars

\* A first flush of two user chunks cached at time 1 saved its artifact and
\* then failed to append; the retry saved revision 1 and appended one event
\* with timestamp 1 that refers to it.
C11_Witness ==
  /\ Returned
  /\ Succeeded("user")
  /\ Len(hist.input.entries) = 2
  /\ Len(NewEvents) = 1
  /\ NewEvents[1].author = "user"
  /\ NewEvents[1].timestamp = 1
  /\ NewEvents[1].parts[1].file_uri.revision = 1

\* cache_type of a side, as flush_caches passes it.
CacheTypeOf(side) == IF side = "user" THEN "input_audio" ELSE "output_audio"

\* ms is the timestamp in whole milliseconds.
WholeMs(ms, timestamp) ==
  /\ ms * TicksPerMs <= timestamp
  /\ timestamp < (ms + 1) * TicksPerMs

\* A mime type and a filename taken from the chunk `first` for a side.
NamedAfter(mime_type, filename, first, side) ==
  /\ mime_type = first.data.mime_type
  /\ filename.cache_type = CacheTypeOf(side)
  /\ WholeMs(filename.timestamp_ms, first.timestamp)
  /\ filename.subtype = first.data.mime_type[Len(first.data.mime_type)]

\* A flush is between its save_artifact call and its return.
InFlight == fl.pc \in {"user_save", "user_append", "model_save", "model_append"}

\* C12: what a flush passes to save_artifact, and every artifact a returned
\* flush has saved, has the mime type of the first buffered chunk and the
\* filename {cache_type}_{first chunk's timestamp in whole ms}.{subtype of
\* that mime type}, cache_type being input_audio for the user side and
\* output_audio for the model side.
C12_FirstChunkNames ==
  /\ InFlight =>
       NamedAfter(fl.pending.mime_type, fl.pending.filename,
                  FlushedCache.entries[1], fl.pending.side)
  /\ Returned =>
       \A i \in 1..Len(NewArtifacts) :
         NamedAfter(NewArtifacts[i].mime_type, NewArtifacts[i].filename,
                    BeforeOf(NewArtifacts[i].side).entries[1],
                    NewArtifacts[i].side)

\* The model side held a pcm chunk from the first millisecond and a wav chunk
\* from the next; the artifact is output_audio_0.pcm with type audio/pcm.
C12_Witness ==
  /\ Returned
  /\ Len(hist.output.entries) = 2
  /\ hist.output.entries[1].data.mime_type = <<"audio", "pcm">>
  /\ hist.output.entries[2].data.mime_type = <<"audio", "wav">>
  /\ hist.output.entries[1].timestamp = StartTime
  /\ hist.output.entries[2].timestamp = TicksPerMs
  /\ Len(NewArtifacts) = 1
  /\ NewArtifacts[1].mime_type = <<"audio", "pcm">>
  /\ NewArtifacts[1].filename =
       [cache_type |-> "output_audio", timestamp_ms |-> 0, subtype |-> "pcm"]

\* Two timestamps of the same whole millisecond.
SameMs(t1, t2) == \E ms \in 0..MaxTime : WholeMs(ms, t1) /\ WholeMs(ms, t2)

\* Two chunks that start flushes with the same name: the same millisecond and
\* the same mime subtype.
SameStart(t1, mime1, t2, mime2) ==
  /\ SameMs(t1, t2)
  /\ mime1[Len(mime1)] = mime2[Len(mime2)]

\* C13 as claimed: any two artifacts saved for the same side, each by a flush
\* of its own, have different filenames.
C13_DistinctFilenames ==
  \A i, j \in 1..Len(artifacts) :
    (i < j /\ artifacts[i].side = artifacts[j].side) =>
      artifacts[i].filename # artifacts[j].filename

\* C13 as it holds: two flushes of the same side use the same filename
\* exactly when their first chunks have the same whole-millisecond timestamp
\* and the same mime subtype, so bursts that start in different milliseconds
\* get different names, and a flush retried on the cache a failed flush
\* kept, or a burst begun in the millisecond of an earlier one, reuses the
\* name.  Stated for every two events flushes have appended, and for the
\* flush in flight against every appended event.
C13_SameNameSameStart ==
  /\ \A i, j \in 1..Len(events) :
       (i < j /\ events[i].author = events[j].author) =>
         ((events[i].parts[1].file_uri.filename =
             events[j].parts[1].file_uri.filename)
          <=> SameStart(events[i].timestamp, events[i].parts[1].mime_type,
                        events[j].timestamp, events[j].parts[1].mime_type))
  /\ InFlight =>
       \A i \in 1..Len(events) :
         events[i].author = RoleOf(fl.pending.side) =>
           ((events[i].parts[1].file_uri.filename = fl.pending.filename)
            <=> SameStart(events[i].timestamp, events[i].parts[1].mime_type,
                          FlushedCache.entries[1].timestamp,
                          FlushedCache.entries[1].data.mime_type))

\* Two bursts of user audio of the same mime type, begun in different
\* milliseconds, were flushed under different names.
C13_Witness ==
  /\ Len(events) = 2
  /\ events[1].author = "user" /\ events[2].author = "user"
  /\ events[1].parts[1].mime_type = events[2].parts[1].mime_type
  /\ ~SameMs(events[1].timestamp, events[2].timestamp)
  /\ events[1].parts[1].file_uri.filename #
       events[2].parts[1].file_uri.filename

\* ------------------------------------------ claims: the control event policy
\* C14: get_flush_settings on a ControlEventConfig constructed without
\* arguments returns (flush_user_audio, flush_model_audio) = (False, True)
\* for 'interrupted', (True, True) for 'turn_complete' and (False, True) for
\* 'generation_complete'.
C14_DefaultPolicy ==
  DOMAIN config_kwargs = {} =>
    /\ event_type = "interrupted" => settings = Returns(<<FALSE, TRUE>>)
    /\ event_type = "turn_complete" => settings = Returns(<<TRUE, TRUE>>)
    /\ event_type = "generation_complete" =>
         settings = Returns(<<FALSE, TRUE>>)

\* A default configuration was asked for 'turn_complete' and answered that
\* both sides are flushed.
C14_Witness ==
  /\ DOMAIN config_kwargs = {}
  /\ event_type = "turn_complete"
  /\ settings = Returns(<<TRUE, TRUE>>)

\* The pair the constructor was given for a kind, or the kind's default.
ConfiguredFor(kind) ==
  IF kind = "interrupted" THEN control_event_config.flush_on_interrupted
  ELSE IF kind = "turn_complete"
    THEN control_event_config.flush_on_turn_complete
  ELSE control_event_config.flush_on_generation_complete

\* C15: a get_flush_settings call never raises; for one of the three event
\* kinds it returns the pair configured for that kind, which is the pair the
\* constructor was given for it whatever it was given for the other kinds,
\* and for any other key, None and the empty string among them, it returns
\* (False, False).
C15_Total ==
  event_type # NotCalled =>
    /\ ~settings.raised
    /\ event_type \in EventKinds =>
         /\ settings.value = ConfiguredFor(event_type)
         /\ ("flush_on_" \o event_type) \in DOMAIN config_kwargs =>
              settings.value = config_kwargs["flush_on_" \o event_type]
    /\ event_type \notin EventKinds => settings.value = <<FALSE, FALSE>>

\* A configuration that flushes on every kind was asked for None and
\* answered (False, False).
C15_Witness ==
  /\ DOMAIN config_kwargs = ConfigFields
  /\ \A f \in ConfigFields : config_kwargs[f] = <<TRUE, TRUE>>
  /\ event_type = None
  /\ settings = Returns(<<FALSE, FALSE>>)

\* ---------------------------------------------------- claims: the live flow
\* The flags a response has set.
FlagsOf(r) == {k \in EventKinds : r[k]}

\* The policy table of the default configuration.
DefaultPolicy ==
  [interrupted |-> <<FALSE, TRUE>>,
   turn_complete |-> <<TRUE, TRUE>>,
   generation_complete |-> <<FALSE, TRUE>>]

\* The pair the flow's configuration names for a kind: the one the flow was
\* constructed with, or the default.
PolicyFor(kind) ==
  IF ("flush_on_" \o kind) \in DOMAIN config_kwargs
    THEN config_kwargs["flush_on_" \o kind]
    ELSE DefaultPolicy[kind]

Named(pair, side) == IF side = "user" THEN pair[1] ELSE pair[2]

\* The flush pass that has returned flushed exactly the sides the pair
\* names: a side it does not name is as it was, with no save_artifact call;
\* a side it names that held entries had its one save_artifact call, an
\* artifact service being configured, and is empty unless a service call
\* failed.
FlushedExactly(pair) ==
  \A side \in Sides :
    IF Named(pair, side)
      THEN /\ (artifact_service /\ ~NotCache(BeforeOf(side))) =>
                Len(SavesOf(side)) = 1
           /\ (artifact_service /\ side \notin hist.failed) =>
                Len(CacheOf(side).entries) = 0
      ELSE /\ CacheOf(side) = BeforeOf(side)
           /\ SavesOf(side) = <<>>

\* C16: when the inbound loop is done with a response that carries one
\* control flag, it has flushed exactly the sides the configured policy
\* names for that kind: with the default policy an interrupted or a
\* generation_complete response leaves the user-audio cache as it was and
\* empties the model-audio cache, a turn_complete response empties both, and
\* a custom pair given for a kind is applied instead (a cache is emptied when
\* an artifact service is configured and no service call fails).
C16_PolicyApplied ==
  \A kind \in EventKinds :
    (inbound = "done" /\ FlagsOf(response) = {kind}) =>
      /\ Returned
      /\ Len(passes) = 1
      /\ FlushedExactly(PolicyFor(kind))

\* With the default policy and an artifact service, user audio arrived, then
\* model audio with the interrupted flag: the user cache still holds its
\* chunk and the model cache is empty.
C16_Witness ==
  /\ inbound = "done"
  /\ DOMAIN config_kwargs = {}
  /\ FlagsOf(response) = {"interrupted"}
  /\ artifact_service
  /\ Len(hist.input.entries) = 1
  /\ Len(hist.output.entries) = 1
  /\ input_audio_cache = hist.input
  /\ output_audio_cache = EmptyList

\* The priority of the control flags.
Rank == [interrupted |-> 1, turn_complete |-> 2, generation_complete |-> 3]

\* The flag of highest priority among the flags a response has set.
Highest(r) ==
  CHOOSE k \in FlagsOf(r) : \A j \in FlagsOf(r) : Rank[k] <= Rank[j]

\* C17: the inbound loop makes no flush pass before the control stage of a
\* response and one pass at most for a response; when it is done with a
\* response, it has made exactly one flush_caches pass if the response has
\* any of the three flags set, with the pair the policy has for the flag of
\* highest priority (interrupted, then turn_complete, then
\* generation_complete), and no pass if the response has no flag set.
C17_Priority ==
  /\ Len(passes) <= 1
  /\ inbound \in {"input_transcription", "output_transcription", "audio",
                   "control"} => passes = <<>>
  /\ inbound \in {"flushing", "done"} =>
       IF FlagsOf(response) = {}
         THEN passes = <<>>
         ELSE /\ Len(passes) = 1
              /\ passes[1].kind = Highest(response)
              /\ passes[1].pair = PolicyFor(Highest(response))
              /\ fl.flush_user_audio = PolicyFor(Highest(response))[1]
              /\ fl.flush_model_audio = PolicyFor(Highest(response))[2]
              /\ hist.called
  /\ (inbound = "done" /\ FlagsOf(response) # {}) =>
       FlushedExactly(PolicyFor(Highest(response)))

\* A response with model audio and all three flags set came after user
\* audio: the one pass used the default pair of interrupted, which left the
\* user cache alone.
C17_Witness ==
  /\ inbound = "done"
  /\ DOMAIN config_kwargs = {}
  /\ FlagsOf(response) = EventKinds
  /\ artifact_service
  /\ passes = <<[response |-> 2, kind |-> "interrupted",
                 pair |-> <<FALSE, TRUE>>]>>
  /\ Len(input_audio_cache.entries) = 1
  /\ Len(hist.output.entries) = 1
  /\ output_audio_cache = EmptyList

\* The positions in the event log of the events a response triggered.
EventsFrom(n) == {i \in 1..Len(events) : origin[i] = n}

IsTranscription(e) == "transcription" \in DOMAIN e
IsAudio(e) == "parts" \in DOMAIN e

\* The transcription events of a kind that the response in hand triggered.
Transcribed(field) ==
  {i \in EventsFrom(seq) :
     IsTranscription(events[i]) /\ events[i].transcription = field}

\* The inbound loop is past a transcription stage of the response in hand.
PastStage(field) ==
  \/ inbound \in {"audio", "control", "flushing", "done"}
  \/ field = "input_transcription" /\ inbound = "output_transcription"

\* The author of the event of a transcription.
AuthorOf(field) == IF field = "input_transcription" THEN "user" ELSE "model"

\* C18: as soon as the inbound loop is past the transcription stage of a
\* response, the response's input transcription has produced exactly one
\* session event, with author 'user' and that transcription, and its output
\* transcription exactly one with author 'model'; a response without the
\* transcription has produced none.  The event is an event of its own, not
\* an audio event, it is in the log before the audio events the same
\* response triggers, and it was appended while the response was in hand, so
\* after every event of an earlier response and before any of a later one.
C18_TranscriptionAtOnce ==
  /\ Len(origin) = Len(events)
  /\ \A i \in 1..Len(events) :
       /\ IsTranscription(events[i]) # IsAudio(events[i])
       /\ origin[i] <= seq
  /\ \A field \in {"input_transcription", "output_transcription"} :
       PastStage(field) =>
         IF response[field] = None
           THEN Transcribed(field) = {}
           ELSE /\ Cardinality(Transcribed(field)) = 1
                /\ \A i \in Transcribed(field) :
                     /\ events[i].author = AuthorOf(field)
                     /\ events[i].text = response[field]
                     /\ \A j \in 1..Len(events) :
                          (origin[j] < seq => j < i)
                          /\ (IsAudio(events[j]) /\ origin[j] = seq => i < j)

\* The second response carried an input transcription, model audio and
\* turn_complete, after a first response that triggered an event: its
\* transcription event is in the log after that event and before the audio
\* event of its own flush.
C18_Witness ==
  /\ inbound = "done"
  /\ seq = 2
  /\ response.input_transcription = "input text"
  /\ Len(events) = 3
  /\ origin = <<1, 2, 2>>
  /\ events[2] = [author |-> "user", transcription |-> "input_transcription",
                  text |-> "input text"]
  /\ IsAudio(events[3])

\* C19: the event log is append-only and in inbound order: every session
\* event was triggered by a response received so far, and an event triggered
\* by an earlier response is in the log before every event triggered by a
\* later response, transcription events and the audio events of flushes
\* alike.
C19_InboundOrder ==
  /\ [](/\ Len(origin) = Len(events)
        /\ \A i, j \in 1..Len(events) :
             /\ origin[i] \in 1..seq
             /\ origin[i] < origin[j] => i < j)
  /\ [][/\ Len(events') >= Len(events)
        /\ SubSeq(events', 1, Len(events)) = events
        /\ SubSeq(origin', 1, Len(origin)) = origin]_vars

\* The flush of the first response appended an audio event, and the second
\* response a transcription event after it.
C19_Witness ==
  /\ Len(events) = 2
  /\ origin = <<1, 2>>
  /\ IsAudio(events[1])
  /\ IsTranscription(events[2])

\* The flow is running and the caller has called close().
CloseRequested == close_called /\ outbound # "idle"

\* C20: once the caller has closed the request queue of a running flow, the
\* outbound loop eventually gets the close request and terminates; a
\* terminated outbound loop has asked the model connection to close; the
\* response stream of a closing connection eventually ends; and so the flow
\* eventually reaches TERMINATED, which it reaches only after the outbound
\* loop got a close request.  Both loops are scheduled fairly.
C20_CloseTerminates ==
  /\ CloseRequested ~> (outbound = "terminated")
  /\ [](outbound = "terminated" => connection # "open")
  /\ (connection = "closing") ~> (inbound = "ended")
  /\ CloseRequested ~> (FlowState = "TERMINATED")
  /\ [](FlowState = "TERMINATED" =>
          /\ close_called
          /\ \E i \in 1..Len(delivered) : delivered[i].close)

\* The caller sent content and then closed the queue; the outbound loop got
\* both requests, the inbound loop handled a response that appended events,
\* and the flow is terminated.
C20_Witness ==
  /\ FlowState = "TERMINATED"
  /\ close_called
  /\ Len(delivered) = 2
  /\ delivered[2].close
  /\ seq >= 1
  /\ events # <<>>

\* ------------------------------------- claims: flushes, errors, statistics
\* The side whose flush is suspended in save_artifact or append_event.
SuspendedSide ==
  IF fl.pc \in {"user_save", "user_append"} THEN "user"
  ELSE IF fl.pc \in {"model_save", "model_append"} THEN "model"
  ELSE None

\* C21: at most one flush is in flight at a time: while a flush of a side is
\* suspended in save_artifact or append_event, the inbound loop is awaiting
\* that flush, which it started for the response in hand (or for the
\* teardown), and handles nothing else; and a flush_caches call starts only
\* when no flush is suspended, from the control stage of a response or at
\* the end of the stream.
C21_OneFlushInFlight ==
  /\ [](SuspendedSide # None =>
          /\ inbound \in {"flushing", "final_flush"}
          /\ passes # <<>>
          /\ passes[Len(passes)].response = seq
          /\ fl.pending.side = SuspendedSide)
  /\ [][flush_calls' # flush_calls =>
          /\ SuspendedSide = None
          /\ inbound \in {"control", "waiting"}
          /\ flush_calls' = flush_calls + 1]_vars

\* User audio is cached and a turn_complete response with model audio is in
\* hand: the flush of the user side is suspended in save_artifact, the model
\* side is still to be flushed, and the loop is awaiting the flush.
C21_Witness ==
  /\ fl.pc = "user_save"
  /\ inbound = "flushing"
  /\ seq = 2
  /\ response.turn_complete
  /\ Len(input_audio_cache.entries) = 1
  /\ Len(output_audio_cache.entries) = 1

\* The inbound loop has a response in hand.
Handling ==
  inbound \in {"input_transcription", "output_transcription", "audio",
               "control", "flushing", "stats", "done"}

\* The flush pass made for the response in hand had a service call fail.
FlushFailed == passes # <<>> /\ hist.called /\ hist.failed # {}

\* C22: a transient error does not end the session.  When the handling of a
\* response has failed, or its flush has, the loop is done with that
\* response only: the connection is still open and the flow is STREAMING;
\* the inbound loop ends only when the connection has failed or was closed;
\* and the handling of every response, failed or not, brings the loop back
\* to wait for the next response of the stream, which it handles like any
\* other (the inbound loop being scheduled fairly).
C22_TransientErrorContinues ==
  /\ []((inbound = "done" /\ (seq \in dropped \/ FlushFailed)) =>
          /\ connection = "open"
          /\ session_error = None
          /\ FlowState = "STREAMING")
  /\ [](inbound = "ended" => connection # "open")
  /\ Handling ~> (inbound = "waiting")
  /\ [][seq' # seq =>
          /\ seq' = seq + 1
          /\ inbound' = StageAfter(response', 0)
          /\ dropped' = dropped]_vars

\* The handling of the first response failed; the second response, model
\* audio at the end of a turn, was handled after it and its flush appended
\* an event to the session.
C22_Witness ==
  /\ dropped = {1}
  /\ seq = 2
  /\ inbound = "done"
  /\ response.turn_complete
  /\ Len(events) = 1
  /\ origin = <<2>>
  /\ output_audio_cache = EmptyList

\* The final flush of the teardown: a flush_caches pass for both sides.
FinalFlushMade ==
  /\ passes # <<>>
  /\ passes[Len(passes)].kind = "teardown"
  /\ hist.called
  /\ fl.flush_user_audio
  /\ fl.flush_model_audio

\* C23: when the model connection fails, both loops terminate and run_live
\* raises the error to its caller (the tasks being scheduled fairly); the
\* error is raised only when both loops have ended; the inbound loop has
\* started a final flush of both caches when the connection failed, and when
\* it has ended that flush has returned, with one save_artifact call made for
\* each side that still held audio (an artifact service being configured);
\* a final flush whose service calls fail ends the loop all the same.
C23_FatalErrorTerminates ==
  /\ (connection = "failed") ~>
       (/\ outbound = "terminated"
        /\ inbound = "ended"
        /\ session_error = "ConnectionError")
  /\ [](session_error # None =>
          /\ connection = "failed"
          /\ FlowState = "TERMINATED")
  /\ [](connection = "failed" =>
          /\ FinalFlushMade
          /\ inbound \in {"final_flush", "ended"})
  /\ []((connection = "failed" /\ inbound = "ended") =>
          /\ fl.pc = "idle"
          /\ \A side \in Sides :
               (artifact_service /\ ~NotCache(BeforeOf(side))) =>
                 Len(SavesOf(side)) = 1)

\* The connection failed while user audio was buffered; the final flush was
\* attempted and its service call failed, the audio is still in the cache,
\* both loops have ended and the error was raised to the caller.
C23_Witness ==
  /\ session_error = "ConnectionError"
  /\ FlowState = "TERMINATED"
  /\ FinalFlushMade
  /\ hist.failed = {"user"}
  /\ Len(SavesOf("user")) = 1
  /\ Len(input_audio_cache.entries) = 1

\* ------------------------------------------- claims: the caches' contents
\* The entries a cache holds: none when it is None.
Held(cache) == IF cache.absent THEN <<>> ELSE cache.entries

\* A step appended one entry for the blob to the cache of the side, and left
\* the other cache alone.
Appended(side, blob) ==
  /\ CacheOf(side)' =
       [absent |-> FALSE,
        entries |-> Append(Held(CacheOf(side)),
                           [role |-> RoleOf(side), data |-> blob,
                            timestamp |-> now'])]
  /\ \A other \in Sides \ {side} : CacheOf(other)' = CacheOf(other)

\* C24: cache_input_audio and cache_output_audio are total and append-only.
\* In every reachable state, whatever the caches hold and wherever a flush is
\* suspended, both calls are enabled for every blob; and a cache_* call is
\* one step that appends exactly one entry at the end of the cache of its
\* side, with the role of the side ('user' for input, 'model' for output)
\* and the given blob, keeps every entry the cache held, and changes neither
\* the other cache, nor the session's events, nor the saved artifacts, nor
\* the flush in progress.
C24_AppendOnly ==
  /\ [](\A b \in AudioBlobs :
          /\ ENABLED cache_input_audio(b, now)
          /\ ENABLED cache_output_audio(b, now))
  /\ [][cache_calls' # cache_calls =>
          /\ cache_calls' = cache_calls + 1
          /\ \E side \in Sides, b \in AudioBlobs : Appended(side, b)
          /\ UNCHANGED <<events, artifacts, fl, artifact_service>>]_vars

\* A second chunk was appended to the input cache while its flush is
\* suspended in append_event; the output cache is still None.
C24_Witness ==
  /\ cache_calls = 2
  /\ Len(input_audio_cache.entries) = 2
  /\ input_audio_cache.entries[1].data # input_audio_cache.entries[2].data
  /\ output_audio_cache = AbsentCache
  /\ fl.pc = "user_append"

\* C25: in every reachable state the entries of each cache are in
\* non-decreasing order of their timestamps, and no entry is stamped later
\* than the clock reads, however cache_* calls interleave with flushes that
\* succeed or fail (the clock never goes back).
C25_TimestampOrder ==
  \A side \in Sides :
    LET entries == CacheOf(side).entries
    IN /\ \A i, j \in 1..Len(entries) :
            i < j => entries[i].timestamp <= entries[j].timestamp
       /\ \A i \in 1..Len(entries) :
            /\ entries[i].timestamp >= StartTime
            /\ entries[i].timestamp <= now

\* After a flush of the input cache that failed, the cache holds two chunks,
\* the second one stamped later than the first.
C25_Witness ==
  /\ hist.called
  /\ "user" \in hist.failed
  /\ fl.pc = "idle"
  /\ Len(input_audio_cache.entries) = 2
  /\ input_audio_cache.entries[1].timestamp <
       input_audio_cache.entries[2].timestamp

\* The number of bytes the chunks of a cache hold together.
BytesHeld(cache) == Len(CombinedAudio(Held(cache)))

\* The exact statistics of the caches as they are.
ExactStats ==
  [input_chunks |-> Len(Held(input_audio_cache)),
   output_chunks |-> Len(Held(output_audio_cache)),
   input_bytes |-> BytesHeld(input_audio_cache),
   output_bytes |-> BytesHeld(output_audio_cache),
   total_chunks |->
     Len(Held(input_audio_cache)) + Len(Held(output_audio_cache)),
   total_bytes |->
     BytesHeld(input_audio_cache) + BytesHeld(output_audio_cache)]

\* C26: get_cache_stats is read-only and exact.  In every reachable state,
\* with the caches None, empty or holding chunks and wherever a flush is
\* suspended, the call returns the number of entries of each cache as
\* input_chunks / output_chunks, the summed sizes of their chunks as
\* input_bytes / output_bytes, and the sums of the two sides as total_chunks
\* / total_bytes; and a call changes nothing of the invocation context:
\* neither cache, nor the events, the artifacts or the flush in progress.
C26_StatsExact ==
  /\ [](get_cache_stats(input_audio_cache, output_audio_cache) = ExactStats)
  /\ [](~stats.called => stats = NoStats)
  /\ [][stats' # stats =>
          /\ stats'.called
          /\ stats'.value = ExactStats
          /\ UNCHANGED <<input_audio_cache, output_audio_cache, events,
                         artifacts, fl, now, artifact_service>>]_vars

\* The call was made with a one-byte chunk in the input cache and a two-byte
\* chunk in the output cache, which are still there.
C26_Witness ==
  /\ stats.called
  /\ stats.value =
       [input_chunks |-> 1, output_chunks |-> 1, input_bytes |-> 1,
        output_bytes |-> 2, total_chunks |-> 2, total_bytes |-> 3]
  /\ Len(input_audio_cache.entries) = 1
  /\ Len(output_audio_cache.entries) = 1
  /\ output_audio_cache.entries[1].data.data = <<2, 2>>

\* The statistics logged for a response.
LogsFor(n) == {i \in 1..Len(stats_log) : stats_log[i].response = n}

\* The inbound loop made a flush attempt for the response in hand.
FlushAttempted == FlagsOf(response) # {} /\ seq \notin dropped

\* C27: cache statistics are logged exactly when enable_cache_statistics is
\* set.  With it unset nothing is ever logged.  With it set, when the loop
\* is done with a response for which it made a flush attempt (a response
\* with a control flag, handled without error), it has logged the statistics
\* once for that response, after the flush returned and whether or not the
\* flush changed anything or failed, and they count the chunks the caches
\* hold after the flush; for a response without a flush attempt nothing is
\* logged.  The logging step appends to the log only and changes neither
\* cache, nor the events, nor the artifacts.
C27_StatisticsGate ==
  /\ [](~enable_cache_statistics => stats_log = <<>>)
  /\ []((enable_cache_statistics /\ inbound = "done") =>
          IF FlushAttempted
            THEN /\ Cardinality(LogsFor(seq)) = 1
                 /\ stats_log[Len(stats_log)].response = seq
                 /\ stats_log[Len(stats_log)].stats.input_chunks =
                      Len(Held(input_audio_cache))
                 /\ stats_log[Len(stats_log)].stats.output_chunks =
                      Len(Held(output_audio_cache))
                 /\ Returned
            ELSE LogsFor(seq) = {})
  /\ [][stats_log' # stats_log =>
          /\ enable_cache_statistics
          /\ Len(stats_log') = Len(stats_log) + 1
          /\ SubSeq(stats_log', 1, Len(stats_log)) = stats_log
          /\ passes # <<>>
          /\ fl.pc = "idle"
          /\ UNCHANGED <<input_audio_cache, output_audio_cache, events,
                         artifacts, fl>>]_vars

\* With statistics enabled, user audio was cached and then model audio came
\* at the end of a turn; the flush of the user side failed and that of the
\* model side succeeded, and the statistics logged after it show the one
\* chunk the input cache still holds.
C27_Witness ==
  /\ enable_cache_statistics
  /\ inbound = "done"
  /\ seq = 2
  /\ response.turn_complete
  /\ hist.failed = {"user"}
  /\ Len(stats_log) = 1
  /\ stats_log[1].response = 2
  /\ stats_log[1].stats.input_chunks = 1
  /\ stats_log[1].stats.output_chunks = 0
  /\ output_audio_cache = EmptyList

\* ------------------------------------------ claims: what becomes of chunks
\* The chunks appended so far, by number: the n-th cache_* call appended
\* ChunkBlob(n), whose bytes no other chunk has.
Chunks == 1..cache_calls

\* The chunk is in a cache.
InCache(n) ==
  \E side \in Sides :
    \E i \in 1..Len(CacheOf(side).entries) :
      CacheOf(side).entries[i].data = ChunkBlob(n)

\* The saved artifacts whose bytes include the chunk's.
ArtifactsWith(n) ==
  {a \in 1..Len(artifacts) :
     \E i \in 1..Len(artifacts[a].data) : artifacts[a].data[i] = n}

\* The session events that refer to an artifact with the chunk's bytes.
EventsWith(n) ==
  {e \in 1..Len(events) :
     \E a \in ArtifactsWith(n) : RefersTo(events[e], artifacts[a])}

\* C28: no cached chunk is discarded without being persisted: in every
\* reachable state each chunk appended by cache_input_audio or
\* cache_output_audio is still in a cache or is contained in a saved
\* artifact, also when it was appended while a flush of its side was
\* suspended in save_artifact or append_event.
C28_NoChunkLost ==
  \A n \in Chunks : InCache(n) \/ ArtifactsWith(n) # {}

\* C29 as stated: the bytes of each chunk are included in at most one
\* successful save_artifact call and referenced by at most one session
\* event, whatever service calls fail.
C29_PersistedOnce ==
  \A n \in Chunks :
    /\ Cardinality(ArtifactsWith(n)) <= 1
    /\ Cardinality(EventsWith(n)) <= 1

\* C29, amended: each chunk is referenced by at most one session event, and
\* a chunk an event refers to is in no cache any more; its bytes can be in
\* several saved artifacts, but then only the last of them can be referred
\* to by an event: every earlier one was saved by a flush whose
\* append_event failed, which left the chunk in the cache for the retry.
C29_ReferencedOnce ==
  \A n \in Chunks :
    /\ Cardinality(EventsWith(n)) <= 1
    /\ EventsWith(n) # {} => ~InCache(n)
    /\ \A a, b \in ArtifactsWith(n) :
         a < b => \A e \in 1..Len(events) : ~RefersTo(events[e], artifacts[a])

\* The first flush saved the chunk and failed to append its event; the retry
\* saved it again and appended the one event, which refers to the second
\* artifact.
C29_Witness ==
  /\ cache_calls = 1
  /\ Cardinality(ArtifactsWith(1)) = 2
  /\ Len(events) = 1
  /\ RefersTo(events[1], artifacts[2])
  /\ ~InCache(1)

\* The last flush had a save_artifact call for the side fail.
SaveFailed(side) ==
  \E i \in 1..Len(hist.saves) :
    hist.saves[i].side = side /\ ~hist.saves[i].ok

\* C30: within one side's flush the artifact is saved before the event is
\* appended.  Every event of the log refers to an artifact that is saved, by
\* the filename and the revision save_artifact returned for it, and no two
\* events refer to the same one; the step that appends an event saves
\* nothing, comes after this flush's successful save_artifact call for the
\* side, and appends the reference to the artifact that call saved; and a
\* flush whose save_artifact failed for a side has appended no event for
\* that side.
C30_SaveBeforeAppend ==
  /\ [](\A e \in 1..Len(events) :
          \E a \in 1..Len(artifacts) : RefersTo(events[e], artifacts[a]))
  /\ [](\A e1, e2 \in 1..Len(events) :
          e1 # e2 => events[e1].parts[1].file_uri
                       # events[e2].parts[1].file_uri)
  /\ [](\A side \in Sides : SaveFailed(side) => EventsOf(side) = <<>>)
  /\ [][events' # events =>
          /\ artifacts' = artifacts
          /\ Len(artifacts) > hist.artifacts
          /\ hist.saves # <<>>
          /\ hist.saves[Len(hist.saves)].ok
          /\ hist.saves[Len(hist.saves)].side = fl.pending.side
          /\ artifacts[Len(artifacts)].side = fl.pending.side
          /\ RefersTo(events'[Len(events')], artifacts[Len(artifacts)])]_vars

\* One flush of both sides has returned: save_artifact failed for the user
\* side, which got no event, and succeeded for the model side, whose event
\* refers to the one artifact saved.
C30_Witness ==
  /\ Returned
  /\ SaveFailed("user")
  /\ EventsOf("user") = <<>>
  /\ Len(EventsOf("model")) = 1
  /\ Len(artifacts) = 1
  /\ Len(events) = 1
  /\ RefersTo(events[1], artifacts[1])
  /\ Len(input_audio_cache.entries) = 1

\* ------------------------------------------ claims: the sides of a flush
\* The other side of a flush.
OtherSide(side) == IF side = "user" THEN "model" ELSE "user"

\* C31: the two sides of one flush_caches call succeed or fail
\* independently.  When a flush of both sides has returned (an artifact
\* service being configured and no cache_* call made meanwhile) and a
\* service call failed for one side, that side's cache holds what it held
\* before; the other side, if it held entries, was attempted all the same,
\* with its one save_artifact call, and its cache is cleared unless its own
\* service call failed too.
C31_SidesIndependent ==
  (Returned /\ artifact_service /\ fl.flush_user_audio
     /\ fl.flush_model_audio) =>
    \A side \in Sides :
      side \in hist.failed =>
        /\ CacheOf(side) = BeforeOf(side)
        /\ ~NotCache(BeforeOf(OtherSide(side))) =>
             /\ Len(SavesOf(OtherSide(side))) = 1
             /\ OtherSide(side) \notin hist.failed =>
                  /\ CacheOf(OtherSide(side)) = EmptyList
                  /\ Len(EventsOf(OtherSide(side))) = 1

\* A flush of both sides has returned: the user side's save_artifact
\* failed and its chunk is still cached; the model side was saved after it
\* and its cache is cleared.
C31_Witness ==
  /\ Returned
  /\ fl.flush_user_audio
  /\ fl.flush_model_audio
  /\ hist.failed = {"user"}
  /\ Len(hist.saves) = 2
  /\ hist.saves[1].side = "user"
  /\ hist.saves[2].side = "model"
  /\ Len(input_audio_cache.entries) = 1
  /\ output_audio_cache = EmptyList
  /\ Len(hist.output.entries) = 1

\* ---------------------------------------------------------------- C32
\* How far a cache is past the thresholds of the manager's configuration.
OverSize(cache) == BytesHeld(cache) > cache_config.max_cache_size_bytes
OverCount(cache) == Len(Held(cache)) > cache_config.auto_flush_threshold
OverAge(cache) ==
  /\ Held(cache) # <<>>
  /\ now - Held(cache)[1].timestamp > cache_config.max_cache_duration

OverEveryThreshold(cache) ==
  OverSize(cache) /\ OverCount(cache) /\ OverAge(cache)

Extends(after, before) ==
  /\ Len(after) >= Len(before)
  /\ SubSeq(after, 1, Len(before)) = before

CacheStep == cache_calls' = cache_calls + 1

\* C32: flushing is driven by control events only. A cache_input_audio or
\* cache_output_audio call makes no artifact or session service call and
\* clears nothing, whatever the thresholds of the configuration: each cache
\* keeps what it held, and one of them holds one chunk more. Until a flush
\* has succeeded the caches hold every chunk that was cached.
C32_NoThresholdFlush ==
  /\ [](events = <<>> =>
          Len(Held(input_audio_cache)) + Len(Held(output_audio_cache))
            = cache_calls)
  /\ [][CacheStep =>
          /\ artifacts' = artifacts
          /\ events' = events
          /\ fl' = fl
          /\ Extends(Held(input_audio_cache'), Held(input_audio_cache))
          /\ Extends(Held(output_audio_cache'), Held(output_audio_cache))
          /\ Len(Held(input_audio_cache')) + Len(Held(output_audio_cache'))
               = Len(Held(input_audio_cache))
                   + Len(Held(output_audio_cache)) + 1]_vars

\* The manager was constructed with thresholds of one byte, no time and one
\* chunk; two chunks were cached on the user side, the second later than the
\* first, and the cache is past every threshold with nothing saved.
C32_Witness ==
  /\ cache_config = AudioCacheConfig(1, 0, 1)
  /\ cache_calls = 2
  /\ Len(Held(input_audio_cache)) = 2
  /\ OverEveryThreshold(input_audio_cache)
  /\ artifacts = <<>>
  /\ events = <<>>

\* ---------------------------------------------------------------- C33
CloseSent == \E i \in 1..Len(sent) : sent[i].close
ProducerStep == calls' = calls + 1
GetStep == Len(delivered') = Len(delivered) + 1

\* C33: the queue does not enforce termination. A producer call made after
\* close() is accepted like any other: its request is enqueued at the tail,
\* behind the close request. get() delivers the close request like any other
\* item, the head of the queue in its FIFO position, and goes on delivering
\* what was enqueued behind it.
C33_CloseNotEnforced ==
  /\ [][(ProducerStep /\ CloseSent) =>
          /\ ~raised'
          /\ Len(sent') = Len(sent) + 1
          /\ queue' = Append(queue, sent'[Len(sent')])
          /\ delivered' = delivered]_vars
  /\ [][GetStep =>
          /\ queue # <<>>
          /\ delivered' = Append(delivered, Head(queue))
          /\ queue' = Tail(queue)
          /\ delivered'[Len(delivered')] = sent[Len(delivered')]]_vars

\* close() was called, then send_content(); get() has delivered the close
\* request and, after it, the content.
C33_Witness ==
  /\ Len(sent) = 2
  /\ sent[1].close
  /\ sent[2].content # None
  /\ delivered = sent
  /\ queue = <<>>

\* ---------------------------------------------------------------- C34
\* The requests the outbound loop has sent on to the model connection: it is
\* the queue's only consumer, and sends on each request it gets that is not
\* a close request in the step that gets it.
RECURSIVE NotClose(_)
NotClose(s) ==
  IF s = <<>> THEN <<>>
  ELSE IF Head(s).close THEN NotClose(Tail(s))
  ELSE <<Head(s)>> \o NotClose(Tail(s))

Forwarded == NotClose(delivered)

\* The requests enqueued before the first close request.
RECURSIVE BeforeFirstClose(_)
BeforeFirstClose(s) ==
  IF s = <<>> \/ Head(s).close THEN <<>>
  ELSE <<Head(s)>> \o BeforeFirstClose(Tail(s))

IsPrefix(p, s) == Len(p) <= Len(s) /\ SubSeq(s, 1, Len(p)) = p

\* C34: the outbound loop forwards to the model connection exactly the
\* requests enqueued before the first close request, in enqueue order, and
\* stops at that close. What it has forwarded is always a prefix of them;
\* once the connection was asked to close, or the loop has ended, all of
\* them were forwarded and the close request was the last request the loop
\* got; and a running loop with a close request enqueued gets there.
C34_ForwardUntilClose ==
  /\ [](IsPrefix(Forwarded, BeforeFirstClose(sent)))
  /\ []((connection # "open" \/ outbound = "terminated") =>
          /\ Forwarded = BeforeFirstClose(sent)
          /\ delivered = Append(Forwarded, CloseRequest.value)
          /\ outbound = "terminated")
  /\ [][outbound = "terminated" => delivered' = delivered]_vars
  /\ (outbound = "running" /\ CloseSent) ~>
       (outbound = "terminated" /\ connection # "open"
          /\ Forwarded = BeforeFirstClose(sent))

\* The caller closed the queue and then sent content: the loop got the close
\* request and ended, the connection was asked to close, and the content
\* stays in the queue, not forwarded.
C34_Witness ==
  /\ Len(sent) = 2
  /\ sent[1].close
  /\ sent[2].content # None
  /\ outbound = "terminated"
  /\ connection # "open"
  /\ delivered = <<sent[1]>>
  /\ queue = <<sent[2]>>
  /\ Forwarded = <<>>

\* ---------------------------------------------------------------- C35
\* A step in which a suspended get() ends without returning a request.
TimeoutStep ==
  getter = "waiting" /\ getter' = "idle" /\ delivered' = delivered

\* The requests the loop has to get for everything that was enqueued before
\* its last timeout to be delivered.
DueAfterTimeout == last_timeout.got + Len(last_timeout.pending)

\* C35: a timeout of the outbound loop's wait on get() is not a cancellation
\* and loses nothing. The step leaves the loop running and the queue as it
\* was; what was enqueued when the wait timed out is delivered or still
\* queued, in enqueue order, and every request is delivered at most once;
\* and a running loop goes on to get all of it, unless a close request ends
\* the loop first.
C35_TimeoutLosesNothing ==
  /\ [][TimeoutStep =>
          /\ outbound' = "running"
          /\ connection' = connection
          /\ queue' = queue
          /\ sent' = sent]_vars
  /\ [](delivered \o queue = sent)
  /\ [](last_timeout.happened =>
          /\ last_timeout.got <= Len(delivered)
          /\ DueAfterTimeout <= Len(sent)
          /\ SubSeq(sent, last_timeout.got + 1, DueAfterTimeout)
               = last_timeout.pending)
  /\ \A n \in 0..MaxSends :
       (last_timeout.happened /\ DueAfterTimeout = n
          /\ outbound = "running") ~>
         (Len(delivered) >= n \/ outbound = "terminated")

\* A wait timed out with a request enqueued during it; the loop is still
\* running and a later wait has delivered that request and the one sent
\* after it.
C35_Witness ==
  /\ last_timeout.happened
  /\ last_timeout.got = 0
  /\ Len(last_timeout.pending) = 1
  /\ outbound = "running"
  /\ Len(sent) = 2
  /\ delivered = sent
  /\ delivered[1] = last_timeout.pending[1]

\* ---------------------------------------------------------------- C36
\* C36: the toolset initializes its computer only once. While no
\* computer.initialize() call has failed, any number of _ensure_initialized
\* and get_tools calls, sequential or overlapping, have made at most one.
C36_InitializeOnce ==
  initialize_failures = 0 => initialize_calls <= 1

\* ---------------------------------------------------------------- C37
StoredCount(k) == IF k \in DOMAIN retry_counts THEN retry_counts[k] ELSE 0
StoredCountAfter(k) ==
  IF k \in DOMAIN retry_counts' THEN retry_counts'[k] ELSE 0

ErrorStep(k) == errors'[k] = errors[k] + 1

IsToolKey(k) ==
  \E i \in InvocationIds, n \in ToolNames :
    k = get_retry_key(i, ToolOperation(n))

\* C37: the plugin bounds retries per key. No stored count exceeds
\* max_retries. An error for a key that has had fewer than max_retries
\* errors increments the key's count by one and returns a retry outcome:
\* the reflection response with the new count for a tool,
\* ModelErrorStrategy.RETRY for the model. Every later error for the key
\* returns the limit-exceeded response and leaves the count as it is. No
\* call changes the count of another key.
C37_RetriesBounded ==
  /\ [](\A k \in DOMAIN retry_counts : retry_counts[k] <= max_retries)
  /\ [][\A k \in RetryKeys :
          ErrorStep(k) =>
            /\ \A other \in RetryKeys \ {k} :
                 /\ StoredCountAfter(other) = StoredCount(other)
                 /\ (other \in DOMAIN retry_counts')
                      = (other \in DOMAIN retry_counts)
            /\ IF errors[k] < max_retries
                 THEN /\ StoredCount(k) = errors[k]
                      /\ StoredCountAfter(k) = errors[k] + 1
                      /\ outcome' =
                           IF IsToolKey(k)
                             THEN Outcome("tool_reflection",
                                          <<errors[k] + 1>>)
                             ELSE Outcome("ModelErrorStrategy.RETRY", <<>>)
                 ELSE /\ StoredCountAfter(k) = StoredCount(k)
                      /\ (k \in DOMAIN retry_counts')
                           = (k \in DOMAIN retry_counts)
                      /\ outcome'.kind =
                           IF IsToolKey(k) THEN "tool_retry_exceed"
                           ELSE "model_retry_exceed"]_vars

\* With max_retries = 2, a tool of one invocation has failed three times:
\* its count stopped at 2 and the last error got the limit-exceeded
\* response, while the model key of the same invocation has its own count
\* of 1.
C37_Witness ==
  /\ max_retries = 2
  /\ errors[get_retry_key("e-1", ToolOperation("search"))] = 3
  /\ retry_counts[get_retry_key("e-1", ToolOperation("search"))] = 2
  /\ outcome = Outcome("tool_retry_exceed", <<2>>)
  /\ errors[get_retry_key("e-1", "model")] = 1
  /\ retry_counts[get_retry_key("e-1", "model")] = 1

\* ---------------------------------------------------------------- C38
Reduced(kind) == strategy.kind = kind /\ reduce_outcome # "not called"

\* s ends with t.
IsSuffix(t, s) ==
  /\ Len(t) <= Len(s)
  /\ SubSeq(s, Len(s) - Len(t) + 1, Len(s)) = t

\* What the claim says of a history and the history reduce made of it.
KeepsLastUsers(history, reduced_history, limit) ==
  IF UserMessages(history) <= limit
    THEN reduced_history = history
    ELSE /\ IsSuffix(reduced_history, history)
         /\ UserMessages(reduced_history) = limit
         /\ reduced_history # <<>> => Head(reduced_history).role = "user"

\* C38: UserMessagesStrategy.reduce keeps the last `limit` user messages. It
\* leaves the contents unchanged when the history, all messages but the
\* first, holds at most `limit` user messages; otherwise it leaves the first
\* message followed by the suffix of the history that starts at the limit-th
\* most recent user message, which holds exactly `limit` user messages.
C38_KeepsLastUserMessages ==
  Reduced("UserMessagesStrategy") =>
    /\ reduce_outcome = "returned"
    /\ IF Len(original) <= 1
         THEN contents = original
         ELSE /\ contents # <<>>
              /\ Head(contents) = Head(original)
              /\ KeepsLastUsers(Tail(original), Tail(contents),
                                strategy.limit)

\* ---------------------------------------------------------------- C39
\* The last k items of s, for 0 <= k <= Len(s).
Suffix(s, k) == [j \in 1..k |-> s[Len(s) - k + j]]

Smaller(a, b) == IF a < b THEN a ELSE b

\* The first message followed by the last (limit - 1) messages of the rest.
FirstAndLast(c, limit) ==
  <<Head(c)>> \o Suffix(Tail(c), Smaller(limit - 1, Len(c) - 1))

\* C39: TotalMessagesStrategy.reduce returns for every request and limit;
\* contents of at most `limit` messages are unchanged;
\* otherwise the result is the first message followed by the last
\* (limit - 1) messages of the rest in their order, and the result never has
\* more than `limit` messages.
C39_AtMostLimit ==
  Reduced("TotalMessagesStrategy") =>
    /\ reduce_outcome = "returned"
    /\ Len(contents) <= strategy.limit
    /\ IF Len(original) <= strategy.limit
         THEN contents = original
         ELSE /\ original # <<>>
              /\ strategy.limit >= 1
              /\ contents = FirstAndLast(original, strategy.limit)

\* ---------------------------------------------------------------- C40
\* The place of a name in the alphabet.
AlphaRank(name) == CHOOSE k \in DOMAIN AgentNames : AgentNames[k] = name

\* C40: list_agents returns the names of all agents given at construction,
\* each exactly once, sorted alphabetically; load_agent returns the agent
\* given under a known name, raises KeyError for an unknown name, and no
\* call changes the loader.
C40_ListedSortedLoadedSame ==
  /\ agent_cache = agents
  /\ loader_result.kind = "list" =>
       /\ Len(loader_result.names) = Len(agents)
       /\ \A i \in 1..Len(agents) :
            \E j \in 1..Len(loader_result.names) :
              loader_result.names[j] = agents[i].key
       /\ \A i, j \in 1..Len(loader_result.names) :
            i < j =>
              AlphaRank(loader_result.names[i]) < AlphaRank(loader_result.names[j])
  /\ loader_result.kind = "agent" =>
       \E i \in 1..Len(agents) :
         /\ agents[i].key = loader_result.key
         /\ agents[i].value = loader_result.agent
  /\ loader_result.kind = "KeyError" =>
       \A i \in 1..Len(agents) : agents[i].key # loader_result.key

====
